---- MODULE Spec2Model ----
(***************************************************************************)
(* Concierge service: the bundle engine (BundleEngine.generate), its hot   *)
(* cache, the upstream inventory clients with their retry wrapper, and the *)
(* deal cache it overlays; the Kafka deal-event consumer, the watch        *)
(* evaluator with its alerts, and the websocket registry.  Deals worker:   *)
(* the ingest, normalize, score, tag, persist, emit pipeline.              *)
(*                                                                         *)
(* Numbers.  The code computes in binary floating point.  Here money and   *)
(* scores are fixed-point integers in thousandths (1 dollar = 1000,        *)
(* 1 score point = 1000), so that rounding to cents does something.        *)
(* Datetimes are whole hours; the hot cache's clock is in seconds.         *)
(* Strings that the code searches (hotel names, deal summaries) are        *)
(* sequences of words; a substring test is a contiguous-subsequence test.  *)
(***************************************************************************)
EXTENDS Integers, Sequences, FiniteSets, TLC

VARIABLES
    redis_client,   \* "client" or None: the Redis handle given to the engine and the cache
    redis,          \* hot cache: key -> [value, expires_at]
    now,            \* wall clock, seconds
    bundles,        \* durable table "bundles": sequence of BundleRecord rows, insertion order
    cached_deals,   \* durable table "cached_deals": deal_id -> CachedDeal row
    uuid_counter,   \* how many uuid4() batches were drawn
    call,           \* per task: one activation of BundleEngine.generate
    topic,          \* deal.events as consumed so far: [payload, applied] per message
    watch_requests, \* durable table "watch_requests": id -> WatchRequest row
    evaluator,      \* the periodic_watch_runner task: where it is in evaluate_watches
    alerts,         \* every ws_manager.broadcast call the evaluator made, in order
    _connections,   \* WebSocketManager._connections: key -> list of sockets
    _lock,          \* WebSocketManager._lock: None or who holds it
    endpoint,       \* per socket: where its websocket_endpoint handler is
    broadcast,      \* the activation of WebSocketManager.broadcast
    worker,         \* the deals worker: where it is in process_deals_pipeline
    mongo_deals,    \* MongoDB collection "deals": (referenceId, type) -> document
    produced        \* the events the worker published on deal.events, in order

\* the request path: the engine and its hot cache
engineVars == <<redis_client, redis, bundles, call>>

feedVars == <<topic>>

watchVars == <<watch_requests, evaluator, alerts>>

registryVars == <<_connections, _lock, endpoint, broadcast>>

\* the deals worker process
workerVars == <<worker, mongo_deals, produced>>

\* the state of the background tasks (deal consumer, watch runner), of the
\* connection registry and of the deals worker
backgroundVars == <<feedVars, watchVars, registryVars, workerVars>>

vars == <<redis_client, redis, now, bundles, cached_deals, uuid_counter, call,
          backgroundVars>>

\* Python's None where the value is otherwise a string
None == "None"

\* None where the value is otherwise a record (a request, a response, a cached document)
Nil == [nil |-> TRUE]

\* An optional number or list is a sequence: <<>> is None, <<v>> is the value v

-----------------------------------------------------------------------------
(* Bounds of the model *)

\* the clock advances at most this many ticks
MaxTicks == 2
\* the deal consumer reads at most this many messages
MaxMessages == 3
\* at most this many watches are created
MaxWatches == 2
\* the watch runner evaluates at most this many times
MaxEvaluations == 2
\* the deals worker runs its pipeline at most this many times
MaxRuns == 1
\* a pipeline run ingests at most this many raw deals
MaxBatch == 2

-----------------------------------------------------------------------------
(* Program constants *)

\* _store_response: setex(..., 600, ...)
BundleTtl == 600
\* seconds per clock tick of the model: half of the bundle TTL
TickSeconds == BundleTtl \div 2
\* cache_bundles: setex(key, 900, ...)
UserBundlesTtl == 900
\* Settings.bundle_limit default
bundle_limit == 5
\* stop_after_attempt(3)
StopAfterAttempt == 3
\* top_deals(limit=5)
TopDealsLimit == 5
\* min(100, ...) in _fit_score, in thousandths
FitCap == 100000
\* min(deal.score / 2, 25), in thousandths
DealBonusCap == 25000
\* total_seconds() / 3600
Hour == 3600
\* deals[:10] in emit_deal_events
EmitLimit == 10
\* asyncio.sleep(300) in run_continuous
WorkerSleep == 300

-----------------------------------------------------------------------------
(* Python built-ins used by the code *)

Min(a, b) == IF a <= b THEN a ELSE b

Max(a, b) == IF a >= b THEN a ELSE b

\* floor division that is total on negative numerators
FloorDiv(a, b) == IF a >= 0 THEN a \div b ELSE -((-a + b - 1) \div b)

\* round(x, 2): x in thousandths, result a multiple of 10, ties to even
Round2(x) ==
    LET q == FloorDiv(x, 10)
        r == x - 10 * q
    IN  IF r < 5 THEN 10 * q
        ELSE IF r > 5 THEN 10 * (q + 1)
        ELSE IF q % 2 = 0 THEN 10 * q ELSE 10 * (q + 1)

\* str.lower() on one word
Lower(w) ==
    CASE w = "Hotel" -> "hotel"
      [] w = "Test" -> "test"
      [] w = "Kayak" -> "kayak"
      [] w = "Grand" -> "grand"
      [] w = "Budget" -> "budget"
      [] w = "Inn" -> "inn"
      [] w = "SFO" -> "sfo"
      [] w = "LAX" -> "lax"
      [] OTHER -> w

LowerAll(s) == [i \in 1..Len(s) |-> Lower(s[i])]

\* needle in haystack, both sequences of words
Contains(haystack, needle) ==
    \E i \in 0..(Len(haystack) - Len(needle)) :
        \A j \in 1..Len(needle) : haystack[i + j] = needle[j]

\* seq[:n]
Take(seq, n) == SubSeq(seq, 1, Min(Len(seq), n))

-----------------------------------------------------------------------------
(* Requests (schemas.BundleRequest) *)

\* the request of tests/test_bundle_engine.py
RequestA ==
    [origin |-> "SFO", destination |-> "LAX", departure_date |-> 336, return_date |-> <<432>>,
     budget |-> 1200000,
     preferences |-> [flight_class |-> "economy", hotel_star_rating |-> <<4, 5>>],
     constraints |-> [adults |-> 2, children |-> 0, rooms |-> 1]]

\* no origin, no return date, no star preference, a budget under every fallback cap
RequestB ==
    [origin |-> None, destination |-> "LAX", departure_date |-> 336, return_date |-> <<>>,
     budget |-> 500000,
     preferences |-> [flight_class |-> "economy", hotel_star_rating |-> <<>>],
     constraints |-> [adults |-> 1, children |-> 0, rooms |-> 1]]

Requests == {RequestA, RequestB}

\* generate's user_id: absent, or the user of the test
UserIds == {None, "user-123"}

Services == {"flights", "hotels", "cars"}

-----------------------------------------------------------------------------
(* What the upstream search services answer with (FlightOption, HotelOption, CarOption) *)

Flight(id, origin, airline, price, duration) ==
    [id |-> id, origin |-> origin, destination |-> "LAX", departure_time |-> 336,
     arrival_time |-> 336 + 1, airline |-> airline, flight_class |-> "economy",
     price |-> price, duration_minutes |-> duration]

Hotel(id, name, stars, price_per_night, nights) ==
    [id |-> id, name |-> name, star_rating |-> stars, price_per_night |-> price_per_night,
     nights |-> nights, amenities |-> {"wifi"}, neighborhood |-> "Downtown"]

Car(id, provider, car_type, daily_price) ==
    [id |-> id, provider |-> provider, car_type |-> car_type, daily_price |-> daily_price,
     seats |-> 4, transmission |-> "automatic"]

\* star ratings are in tenths of a star: 40 is 4.0
FlightInventory ==
    << Flight("flt-1", "SFO", "TestAir", 320000, 60),
       Flight("flt-2", "OAK", "CentsAir", 99999, 75),
       Flight("flt-3", "SFO", "RefundAir", -2000000, 90),
       Flight("flt-4", "SFO", "LateAir", 150000, 120) >>

HotelInventory ==
    << Hotel("htl-1", <<"Hotel", "Test">>, 40, 180000, 3),
       Hotel("htl-2", <<"Budget", "Inn">>, 25, 59995, 0),
       Hotel("htl-3", <<"grand", "plaza">>, 50, 410005, 2),
       Hotel("htl-4", <<"Hotel", "Test">>, 30, 90000, 1) >>

CarInventory ==
    << Car("car-1", "TestCars", "sedan", 45000),
       Car("car-2", "CentsCars", "compact", 30005),
       Car("car-3", "LateCars", "van", 80000) >>

Inventory(svc) ==
    CASE svc = "flights" -> FlightInventory
      [] svc = "hotels" -> HotelInventory
      [] svc = "cars" -> CarInventory

\* How one upstream behaves for one fetch: its first `fails` attempts fail (a 5xx, a
\* timeout, a malformed body); every later attempt answers with `items`.
UpstreamModes(svc) ==
    { [fails |-> 0, items |-> Inventory(svc)],
      [fails |-> 0, items |-> Take(Inventory(svc), 1)],
      [fails |-> 0, items |-> <<>>],
      [fails |-> 1, items |-> Inventory(svc)],
      [fails |-> StopAfterAttempt, items |-> Inventory(svc)] }

-----------------------------------------------------------------------------
(* services/http_clients.py *)

_fallback_flights(request) ==
    << [id |-> "demo-flight-1",
        origin |-> IF request.origin # None THEN request.origin ELSE "SFO",
        destination |-> request.destination,
        departure_time |-> request.departure_date,
        arrival_time |-> request.departure_date + 5,
        airline |-> "Kayak Airways",
        flight_class |-> request.preferences.flight_class,
        price |-> Min(FloorDiv(request.budget * 35, 100), 450000),
        duration_minutes |-> 310] >>

\* the fallback hotel priced at 30% of the budget with no cap
FallbackHotelsUncapped(request) ==
    << [id |-> "demo-hotel-1",
        name |-> <<"Kayak", "Grand">>,
        star_rating |-> 45,
        price_per_night |-> FloorDiv(request.budget * 30, 100),
        nights |-> 3,
        amenities |-> {"wifi", "breakfast", "parking"},
        neighborhood |-> "Downtown"] >>

_fallback_hotels(request) ==
    << [id |-> "demo-hotel-1",
        name |-> <<"Kayak", "Grand">>,
        star_rating |-> 45,
        price_per_night |-> Min(FloorDiv(request.budget * 30, 100), 280000),
        nights |-> 3,
        amenities |-> {"wifi", "breakfast", "parking"},
        neighborhood |-> "Downtown"] >>

_fallback_cars(request) ==
    << [id |-> "demo-car-1", provider |-> "Kayak Rentals", car_type |-> "SUV",
        daily_price |-> 65000, seats |-> 5, transmission |-> "automatic"] >>

Fallback(svc, request) ==
    CASE svc = "flights" -> _fallback_flights(request)
      [] svc = "hotels" -> _fallback_hotels(request)
      [] svc = "cars" -> _fallback_cars(request)

\* _post_json for the given attempt: raises while the upstream is failing
_post_json(mode, attempt) ==
    IF attempt <= mode.fails
    THEN [raised |-> TRUE, data |-> <<>>]
    ELSE [raised |-> FALSE, data |-> mode.items]

\* the body without `or _fallback_*(request)`: an empty answer stays empty
FetchBodyNoOrFallback(svc, request, mode, attempt) ==
    LET r == _post_json(mode, attempt)
    IN  IF r.raised
        THEN [raised |-> FALSE, value |-> Fallback(svc, request)]
        ELSE [raised |-> FALSE, value |-> r.data]

\* The body of fetch_flights / fetch_hotels / fetch_cars, run once: the try block
\* posts and transforms, `or` substitutes the fallback for an empty list, and
\* `except Exception` returns the fallback, so the body itself never raises.
FetchBody(svc, request, mode, attempt) ==
    LET r == _post_json(mode, attempt)
    IN  IF r.raised
        THEN [raised |-> FALSE, value |-> Fallback(svc, request)]
        ELSE [raised |-> FALSE,
              value |-> IF r.data # <<>> THEN r.data ELSE Fallback(svc, request)]

\* @retry(wait=wait_exponential(...), stop=stop_after_attempt(3)): call the body
\* again only when it raised, give up (re-raise) after the third attempt.
RECURSIVE Retrying(_, _, _, _)
Retrying(svc, request, mode, attempt) ==
    LET r == FetchBody(svc, request, mode, attempt)
    IN  IF ~r.raised
        THEN [raised |-> FALSE, value |-> r.value, attempts |-> attempt]
        ELSE IF attempt >= StopAfterAttempt
             THEN [raised |-> TRUE, value |-> <<>>, attempts |-> attempt]
             ELSE Retrying(svc, request, mode, attempt + 1)

fetch_flights(request, mode) == Retrying("flights", request, mode, 1)

fetch_hotels(request, mode) == Retrying("hotels", request, mode, 1)

fetch_cars(request, mode) == Retrying("cars", request, mode, 1)

-----------------------------------------------------------------------------
(* services/deal_cache.py: the cached_deals table *)

DealIds == {"d1", "d2"}

DealEvent(deal_id, type, destination, summary, price, score, valid_until, inventory) ==
    [deal_id |-> deal_id, type |-> type, destination |-> destination, route |-> None,
     summary |-> summary, price |-> price, tags |-> {}, score |-> score,
     valid_until |-> valid_until, inventory |-> inventory]

\* Events that parse as schemas.DealEvent: price is any dict, score any float.
\* Scores are in thousandths of a point, prices in thousandths of a dollar.
DealEvents ==
    { \* scenario 3 of the specification: a hotel deal naming "Hotel Test"
      DealEvent("d1", "hotel", "LAX", <<"hotel", "test", "spring", "sale">>,
                [original |-> 200000, deal |-> 150000, discount |-> 50000], 60000, 300, <<4>>),
      \* a re-priced d1: negative discount, negative score
      DealEvent("d1", "hotel", "LAX", <<"Kayak", "Grand", "week">>,
                [original |-> 100000, deal |-> 600000, discount |-> -500000], -200000, 300, <<0>>),
      \* a flight deal with no discount key and a score above 100, its valid_until
      \* already reached when it is consumed
      DealEvent("d2", "flight", "LAX", <<"SFO", "to", "LAX">>,
                [deal |-> 99000], 300000, 0, <<>>),
      \* another destination
      DealEvent("d2", "flight", "JFK", <<"SFO", "to", "JFK">>,
                [original |-> 300000, deal |-> 250000, discount |-> 50000], 90000, 200, <<7>>),
      \* a price dict without "deal": upsert raises KeyError
      DealEvent("d2", "car", "LAX", <<"SUV", "weekend">>,
                [original |-> 80000], 40000, 200, <<2>>) }

\* upsert_deal_event: update the mutable columns of an existing row, or insert a row.
\* Raises (and writes nothing) when event.price has no "deal" key.
UpsertRaises(event) == "deal" \notin DOMAIN event.price

\* an upsert that leaves a row that is already there as it is
UpsertRowInsertOnly(table, event, t) ==
    IF event.deal_id \in DOMAIN table
    THEN table[event.deal_id]
    ELSE [deal_id |-> event.deal_id, type |-> event.type,
          destination |-> event.destination, summary |-> event.summary,
          payload |-> event, score |-> event.score,
          price_value |-> event.price["deal"], inventory |-> event.inventory,
          valid_until |-> event.valid_until, updated_at |-> t]

UpsertRow(table, event, t) ==
    IF event.deal_id \in DOMAIN table
    THEN [table[event.deal_id] EXCEPT
            !.payload = event,
            !.score = event.score,
            !.price_value = event.price["deal"],
            !.inventory = event.inventory,
            !.valid_until = event.valid_until,
            !.updated_at = t]
    ELSE [deal_id |-> event.deal_id, type |-> event.type,
          destination |-> event.destination, summary |-> event.summary,
          payload |-> event, score |-> event.score,
          price_value |-> event.price["deal"], inventory |-> event.inventory,
          valid_until |-> event.valid_until, updated_at |-> t]

\* table with table[k] = v, k possibly new
Put(table, k, v) == [x \in DOMAIN table \cup {k} |-> IF x = k THEN v ELSE table[x]]

\* top_deals(destination, limit): ORDER BY score DESC LIMIT limit, with the
\* destination filter when a destination is given.  SQL leaves the order of equal
\* scores open, so this is the set of row sequences the query may return.
top_deals(table, destination, limit) ==
    LET ids == {d \in DOMAIN table :
                    destination = None \/ table[d].destination = destination}
        n == Min(limit, Cardinality(ids))
    IN  { [i \in 1..n |-> table[f[i]]] :
            f \in { g \in [1..n -> ids] :
                      /\ \A i, j \in 1..n : i # j => g[i] # g[j]
                      /\ \A i, j \in 1..n : i < j => table[g[i]].score >= table[g[j]].score
                      /\ \A d \in ids : (\A i \in 1..n : g[i] # d) =>
                            \A i \in 1..n : table[g[i]].score >= table[d].score } }

-----------------------------------------------------------------------------
(* services/bundle_engine.py: pricing, scoring, components *)

_price_summary(fare, hotel, car) ==
    LET hotel_total == hotel.price_per_night * hotel.nights
        car_total == car.daily_price * Max(hotel.nights, 1)
        total == fare.price + hotel_total + car_total
    IN  [total |-> total, baseline |-> FloorDiv(total * 115, 100)]

\* np.interp(x, [0, budget], [10, 35]): clamped linear interpolation, in thousandths
Interp(x, budget) ==
    IF x <= 0 THEN 10000
    ELSE IF x >= budget THEN 35000
    ELSE \* floor(25000 * x / budget), computed in two steps to stay within 32 bits
         LET q == (25 * x) \div budget
             r == (25 * x) % budget
         IN  10000 + 1000 * q + ((1000 * r) \div budget)

\* hotel.star_rating in request.preferences.hotel_star_rating (ratings in tenths)
StarPreferred(request, hotel) ==
    /\ request.preferences.hotel_star_rating # <<>>
    /\ \E i \in 1..Len(request.preferences.hotel_star_rating) :
          10 * request.preferences.hotel_star_rating[i] = hotel.star_rating

_fit_score(total_price, baseline, request, hotel, deal_bonus) ==
    LET budget_delta == Max(request.budget - total_price, 0)
        budget_score == Interp(budget_delta, request.budget)
        hotel_score == IF StarPreferred(request, hotel) THEN 25000 ELSE 10000
    IN  Min(FitCap, budget_score + hotel_score + deal_bonus)

\* the car priced by hotel.nights without the one-day minimum
BuildComponentsNoMinimum(flight, hotel, car) ==
    LET hotel_total == hotel.price_per_night * hotel.nights
        car_total == car.daily_price * hotel.nights
    IN  << [type |-> "flight",
            summary |-> <<flight.airline, flight.origin, flight.destination>>,
            price |-> flight.price,
            metadata |-> [departure |-> flight.departure_time,
                          arrival |-> flight.arrival_time,
                          class |-> flight.flight_class,
                          duration |-> flight.duration_minutes]],
           [type |-> "hotel",
            summary |-> <<hotel.name, hotel.star_rating>>,
            price |-> hotel_total,
            metadata |-> [nights |-> hotel.nights, amenities |-> hotel.amenities,
                          neighborhood |-> hotel.neighborhood]],
           [type |-> "car",
            summary |-> <<car.provider, car.car_type>>,
            price |-> car_total,
            metadata |-> [transmission |-> car.transmission, seats |-> car.seats]] >>

_build_components(flight, hotel, car) ==
    LET hotel_total == hotel.price_per_night * hotel.nights
        car_total == car.daily_price * Max(hotel.nights, 1)
    IN  << [type |-> "flight",
            summary |-> <<flight.airline, flight.origin, flight.destination>>,
            price |-> flight.price,
            metadata |-> [departure |-> flight.departure_time,
                          arrival |-> flight.arrival_time,
                          class |-> flight.flight_class,
                          duration |-> flight.duration_minutes]],
           [type |-> "hotel",
            summary |-> <<hotel.name, hotel.star_rating>>,
            price |-> hotel_total,
            metadata |-> [nights |-> hotel.nights, amenities |-> hotel.amenities,
                          neighborhood |-> hotel.neighborhood]],
           [type |-> "car",
            summary |-> <<car.provider, car.car_type>>,
            price |-> car_total,
            metadata |-> [transmission |-> car.transmission, seats |-> car.seats]] >>

\* deal.payload.get("price", {}).get("discount", 0)
Discount(deal) ==
    IF "discount" \in DOMAIN deal.payload.price THEN deal.payload.price["discount"] ELSE 0

\* the bonus without the max() against the running deal_bonus of 0
DealBonusNoFloor(deal) == Min(FloorDiv(deal.score, 2), DealBonusCap)

\* max(deal_bonus, min(deal.score / 2, 25)) with deal_bonus = 0 before the loop
DealBonus(deal) == Max(0, Min(FloorDiv(deal.score, 2), DealBonusCap))

\* the hotel test without the lower() on either side
HotelDealMatchesCased(deal, hotel) ==
    /\ deal.payload.type = "hotel"
    /\ Contains(deal.summary, hotel.name)

HotelDealMatches(deal, hotel) ==
    /\ deal.payload.type = "hotel"
    /\ Contains(LowerAll(deal.summary), LowerAll(hotel.name))

FlightDealMatches(deal, flight) ==
    /\ deal.payload.type = "flight"
    /\ Contains(deal.summary, <<flight.origin>>)

\* the `for deal in deals` loop of generate, from deal i on: the first deal of the
\* request's destination that matches the hotel or the flight is applied, then break
RECURSIVE DealOverlay(_, _, _, _, _, _)
DealOverlay(deals, i, request, flight, hotel, savings) ==
    IF i > Len(deals)
    THEN [savings |-> savings, deal_bonus |-> 0,
          explanation |-> <<"Balanced itinerary with matched preferences">>]
    ELSE LET deal == deals[i]
         IN  IF deal.destination # request.destination
             THEN DealOverlay(deals, i + 1, request, flight, hotel, savings)
             ELSE IF HotelDealMatches(deal, hotel)
             THEN [savings |-> savings + Discount(deal), deal_bonus |-> DealBonus(deal),
                   explanation |-> <<"Hotel deal:", deal.summary>>]
             ELSE IF FlightDealMatches(deal, flight)
             THEN [savings |-> savings + Discount(deal), deal_bonus |-> DealBonus(deal),
                   explanation |-> <<"Flight deal:", deal.summary>>]
             ELSE DealOverlay(deals, i + 1, request, flight, hotel, savings)

\* one pass of the innermost loop body: candidate number k of uuid batch `batch`
MakeBundle(request, deals, flight, hotel, car, batch, k) ==
    LET ps == _price_summary(flight, hotel, car)
        savings == Max(0, ps.baseline - ps.total)
        ov == DealOverlay(deals, 1, request, flight, hotel, savings)
        fit_score == _fit_score(ps.total, ps.baseline, request, hotel, ov.deal_bonus)
    IN  [id |-> <<"bundle", batch, k>>,
         destination |-> request.destination,
         total_price |-> Round2(ps.total),
         savings |-> Round2(ov.savings),
         fit_score |-> Round2(fit_score),
         explanation |-> ov.explanation,
         valid_until |-> request.departure_date - 24,
         components |-> _build_components(flight, hotel, car)]

\* the three nested loops over flights[:3], hotels[:3], cars[:2], in loop order
Candidates(request, deals, flights, hotels, cars, batch) ==
    LET fs == Take(flights, 3)
        hs == Take(hotels, 3)
        cs == Take(cars, 2)
        nh == Len(hs)
        nc == Len(cs)
    IN  [k \in 1..(Len(fs) * nh * nc) |->
            LET fi == ((k - 1) \div (nh * nc)) + 1
                hi == (((k - 1) \div nc) % nh) + 1
                ci == ((k - 1) % nc) + 1
            IN  MakeBundle(request, deals, fs[fi], hs[hi], cs[ci], batch, k)]

\* list.sort(key=fit_score, reverse=True): stable, equal keys keep their order
RECURSIVE SortByFit(_)
SortByFit(seq) ==
    IF Len(seq) <= 1 THEN seq
    ELSE LET init == SortByFit(SubSeq(seq, 1, Len(seq) - 1))
             x == seq[Len(seq)]
             pos == Cardinality({i \in 1..Len(init) : init[i].fit_score >= x.fit_score})
         IN  SubSeq(init, 1, pos) \o <<x>> \o SubSeq(init, pos + 1, Len(init))

\* the response cut from the candidates in loop order, without the sort
BuildResponseUnsorted(request, deals, flights, hotels, cars, batch) ==
    LET kept == Take(Candidates(request, deals, flights, hotels, cars, batch), bundle_limit)
    IN  [bundles |-> kept, search_id |-> <<"search", batch>>, total_results |-> Len(kept)]

\* generate, from the loops to the BundleResponse
BuildResponse(request, deals, flights, hotels, cars, batch) ==
    LET sorted == SortByFit(Candidates(request, deals, flights, hotels, cars, batch))
        kept == Take(sorted, bundle_limit)
    IN  [bundles |-> kept, search_id |-> <<"search", batch>>, total_results |-> Len(kept)]

-----------------------------------------------------------------------------
(* JSON and the hot cache *)

\* datetime.isoformat() and its parse
IsoFormat(t) == <<"iso8601", t>>

FromIso(x) == x[2]

\* _cache_key: sha1 of the request's canonical JSON (sorted keys, ISO dates).
\* The digest is modelled as injective: the canonical document stands for its hash.
_cache_key(request) ==
    <<"sha1",
      [request EXCEPT !.departure_date = IsoFormat(@),
                      !.return_date = IF @ = <<>> THEN <<>> ELSE <<IsoFormat(@[1])>>]>>

\* BundleResponse.model_dump_json(): datetimes leave as ISO strings
model_dump_json(response) ==
    [doc |-> "BundleResponse",
     bundles |-> [i \in 1..Len(response.bundles) |->
                    [response.bundles[i] EXCEPT !.valid_until = IsoFormat(@)]],
     search_id |-> response.search_id,
     total_results |-> response.total_results]

\* BundleResponse.model_validate_json(raw)
model_validate_json(raw) ==
    [bundles |-> [i \in 1..Len(raw.bundles) |->
                    [raw.bundles[i] EXCEPT !.valid_until = FromIso(@)]],
     search_id |-> raw.search_id,
     total_results |-> raw.total_results]

BundleKey(request) == <<"concierge:bundle", _cache_key(request)>>

UserBundlesKey(user_id, search_id) == <<"bundles", user_id, search_id>>

\* a GET that never finds the key
RedisGetMiss(store, key, t) == Nil

\* Redis GET at time t: the value, or Nil when the key is absent or expired
RedisGet(store, key, t) ==
    IF key \in DOMAIN store /\ store[key].expires_at > t THEN store[key].value ELSE Nil

\* SETEX given its time to live in the wrong unit: the key is gone at once
RedisSetexMillis(store, key, ttl, value, t) ==
    Put(store, key, [value |-> value, expires_at |-> t + (ttl \div 1000)])

\* Redis SETEX
RedisSetex(store, key, ttl, value, t) ==
    Put(store, key, [value |-> value, expires_at |-> t + ttl])

\* Redis drops the keys whose time to live has run out
RedisExpire(store, t) ==
    [k \in {x \in DOMAIN store : store[x].expires_at > t} |-> store[k]]

\* if user_id: (None and "" are falsy)
Truthy(user_id) == user_id # None /\ user_id # ""

\* records that leave out whose bundles they are
BundleRecordsUnowned(response, user_id, t) ==
    [i \in 1..Len(response.bundles) |->
        LET bundle == response.bundles[i]
        IN  [id |-> bundle.id, search_id |-> response.search_id, user_id |-> None,
             destination |-> bundle.destination, total_price |-> bundle.total_price,
             savings |-> bundle.savings, fit_score |-> bundle.fit_score,
             explanation |-> bundle.explanation, components |-> bundle.components,
             valid_until |-> bundle.valid_until, created_at |-> t]]

\* cache_bundles: one BundleRecord per bundle of the response
BundleRecords(response, user_id, t) ==
    [i \in 1..Len(response.bundles) |->
        LET bundle == response.bundles[i]
        IN  [id |-> bundle.id, search_id |-> response.search_id, user_id |-> user_id,
             destination |-> bundle.destination, total_price |-> bundle.total_price,
             savings |-> bundle.savings, fit_score |-> bundle.fit_score,
             explanation |-> bundle.explanation, components |-> bundle.components,
             valid_until |-> bundle.valid_until, created_at |-> t]]

-----------------------------------------------------------------------------
(* services/kafka.py: the deal.events consumer *)

\* A deal.events message as the deals worker writes it: a JSON object whose
\* valid_until and timestamp are ISO strings.
DealPayload(deal_id, type, destination, price, score, valid_until, inventory) ==
    [event_type |-> "deal_created", deal_id |-> deal_id, type |-> type,
     destination |-> destination, route |-> None, summary |-> <<type, "deal">>,
     price |-> price, score |-> score, tags |-> {},
     valid_until |-> IsoFormat(valid_until), inventory |-> inventory,
     timestamp |-> IsoFormat(0)]

FullPrice == [original |-> 300000, deal |-> 250000, discount |-> 50000]

DealPayloads ==
    { DealPayload("d1", "hotel", "LAX", FullPrice, 60000, 300, <<4>>),
      \* the same score as d1, at the same destination, no inventory figure
      DealPayload("d2", "flight", "LAX", FullPrice, 60000, 200, <<>>),
      DealPayload("d3", "flight", "LAX", FullPrice, 90000, 250, <<9>>),
      \* d2 again, for another destination
      DealPayload("d2", "flight", "JFK", FullPrice, 90000, 200, <<7>>),
      \* d1 again, as another type, cheaper and scored lower
      DealPayload("d1", "car", "LAX", [deal |-> 40000], 40000, 100, <<2>>),
      \* a type outside Literal["flight", "hotel", "car"]
      DealPayload("d3", "cruise", "LAX", FullPrice, 95000, 250, <<1>>),
      \* a price object without "deal"
      DealPayload("d3", "car", "LAX", [original |-> 80000], 70000, 250, <<2>>),
      \* a JSON object that is no deal event
      [event_type |-> "heartbeat", timestamp |-> IsoFormat(0)] }

DealEventRequired ==
    {"deal_id", "type", "destination", "summary", "price", "score", "valid_until"}

\* json.loads(message.value) and DealEvent(**payload): Nil where validation raises.
\* Extra keys are ignored, valid_until is parsed to a datetime, route, tags and
\* inventory take their defaults when absent.
ParseDealEvent(payload) ==
    IF ~(DealEventRequired \subseteq DOMAIN payload) THEN Nil
    ELSE IF payload.type \notin {"flight", "hotel", "car"} THEN Nil
    ELSE [deal_id |-> payload.deal_id, type |-> payload.type,
          destination |-> payload.destination,
          route |-> IF "route" \in DOMAIN payload THEN payload.route ELSE None,
          summary |-> payload.summary, price |-> payload.price,
          tags |-> IF "tags" \in DOMAIN payload THEN payload.tags ELSE {},
          score |-> payload.score,
          valid_until |-> FromIso(payload.valid_until),
          inventory |-> IF "inventory" \in DOMAIN payload THEN payload.inventory ELSE <<>>]

-----------------------------------------------------------------------------
(* services/deal_cache.py: the watch_requests table and evaluate_watches *)

\* schemas.WatchRequestCreate with its defaults
WatchRequestCreate(user_id, destination, budget_ceiling) ==
    [user_id |-> user_id, destination |-> destination,
     budget_ceiling |-> budget_ceiling, min_fit_score |-> 60000,
     notify_on_inventory_below |-> <<5>>]

WatchCreates ==
    { WatchRequestCreate("u1", "LAX", 200000),
      WatchRequestCreate("u2", "LAX", 100000),
      WatchRequestCreate("u1", "JFK", 300000) }

\* the deal events that arrive while watches are evaluated: the well-formed,
\* positively scored events for LAX
WatchDealEvents ==
    {e \in DealEvents : e.destination = "LAX" /\ ~UpsertRaises(e) /\ e.score > 0}

\* the WatchRequest row that create_watch adds
NewWatch(payload, id, t) ==
    [id |-> id, user_id |-> payload.user_id, destination |-> payload.destination,
     budget_ceiling |-> payload.budget_ceiling, min_fit_score |-> payload.min_fit_score,
     notify_on_inventory_below |-> payload.notify_on_inventory_below,
     active |-> TRUE, created_at |-> t, last_triggered_at |-> <<>>]

\* the orders in which a SELECT without ORDER BY may return the rows ids
Orders(ids) ==
    {f \in [1..Cardinality(ids) -> ids] :
        \A i, j \in 1..Cardinality(ids) : i # j => f[i] # f[j]}

\* the statement of a SELECT that takes every watch, fired or not
SelectAllWatches(table) ==
    {[i \in 1..Len(f) |-> table[f[i]]] : f \in Orders(DOMAIN table)}

\* select(WatchRequest).where(WatchRequest.active.is_(True)): the answers it may give
SelectActive(table) ==
    {[i \in 1..Len(f) |-> table[f[i]]] :
        f \in Orders({id \in DOMAIN table : table[id].active})}

\* the deals within the watch's budget, whatever their destination
AffordableAnywhere(watch, deals) ==
    {k \in 1..Len(deals) : deals[k].price_value <= watch.budget_ceiling}

\* the deals of deal_map[watch.destination] that are within the watch's budget
Affordable(watch, deals) ==
    {k \in 1..Len(deals) :
        /\ deals[k].destination = watch.destination
        /\ deals[k].price_value <= watch.budget_ceiling}

\* the trigger loop from watches[i] on: the first affordable deal of the watch's
\* destination, if there is one, makes a pair; then break
RECURSIVE TriggerFrom(_, _, _)
TriggerFrom(watches, deals, i) ==
    IF i > Len(watches) THEN <<>>
    ELSE LET hits == Affordable(watches[i], deals)
             first == CHOOSE k \in hits : \A m \in hits : k <= m
         IN  (IF hits = {} THEN <<>>
              ELSE <<[watch |-> watches[i], deal |-> deals[first]]>>)
             \o TriggerFrom(watches, deals, i + 1)

Triggered(watches, deals) == TriggerFrom(watches, deals, 1)

\* a batch that stamps the triggered watches and leaves them active
MergeStampOnly(table, triggered, t) ==
    [id \in DOMAIN table \cup {triggered[k].watch.id : k \in 1..Len(triggered)} |->
        IF \E k \in 1..Len(triggered) : triggered[k].watch.id = id
        THEN LET k == CHOOSE k \in 1..Len(triggered) : triggered[k].watch.id = id
             IN  [triggered[k].watch EXCEPT !.last_triggered_at = <<t>>]
        ELSE table[id]]

\* a batch that merges the first triggered watch only
MergeFirstTriggered(table, triggered, t) ==
    [id \in DOMAIN table |->
        IF triggered # <<>> /\ triggered[1].watch.id = id
        THEN [triggered[1].watch EXCEPT !.active = FALSE, !.last_triggered_at = <<t>>]
        ELSE table[id]]

\* the second session: every triggered watch object gets active = False and
\* last_triggered_at = utcnow() and is merged; one commit writes them all
MergeTriggered(table, triggered, t) ==
    [id \in DOMAIN table \cup {triggered[k].watch.id : k \in 1..Len(triggered)} |->
        IF \E k \in 1..Len(triggered) : triggered[k].watch.id = id
        THEN LET k == CHOOSE k \in 1..Len(triggered) : triggered[k].watch.id = id
             IN  [triggered[k].watch EXCEPT !.active = FALSE, !.last_triggered_at = <<t>>]
        ELSE table[id]]

\* f"{x:.2f}": sign, dollars and cents of x rounded to cents
Format2f(x) ==
    LET cents == Round2(IF x < 0 THEN -x ELSE x) \div 10
    IN  <<IF x < 0 THEN "-" ELSE "", cents \div 100, cents % 100>>

\* f"Deal {deal.deal_id} now ${deal.price_value:.2f}"
AlertMessage(deal) == <<"Deal", deal.deal_id, "now", "$", Format2f(deal.price_value)>>

\* WatchEvent(...).model_dump() wrapped with its type
DealAlert(watch, deal, t) ==
    [type |-> "deal_alert",
     data |-> [watch_id |-> watch.id, user_id |-> watch.user_id,
               destination |-> watch.destination, message |-> AlertMessage(deal),
               triggered_at |-> t, bundle |-> Nil]]

-----------------------------------------------------------------------------
(* services/websocket_manager.py *)

Sockets == {"s1", "s2"}

\* every channel of the model: two more clients, one of another user and one
\* that connects without a userId
Channels == Sockets \cup {"s3", "s4"}

\* the userId query parameter each socket connects with
SocketUser(s) == IF s \in Sockets THEN "u1" ELSE IF s = "s3" THEN "u2" ELSE None

\* key = user_id or "anon"
RegistryKey(user_id) == IF user_id = None \/ user_id = "" THEN "anon" ELSE user_id

\* _connections is a dict, in insertion order: a sequence of [key, sockets]
HasKey(connections, key) == \E i \in 1..Len(connections) : connections[i].key = key

\* self._connections.get(key, [])
GetSockets(connections, key) ==
    IF HasKey(connections, key)
    THEN connections[CHOOSE i \in 1..Len(connections) : connections[i].key = key].sockets
    ELSE <<>>

\* self._connections.setdefault(key, []).append(websocket)
Register(connections, key, socket) ==
    IF HasKey(connections, key)
    THEN [i \in 1..Len(connections) |->
            IF connections[i].key = key
            THEN [connections[i] EXCEPT !.sockets = Append(@, socket)]
            ELSE connections[i]]
    ELSE Append(connections, [key |-> key, sockets |-> <<socket>>])

\* list.remove(x): without the first occurrence of x
RECURSIVE ListRemove(_, _)
ListRemove(list, x) ==
    IF list = <<>> THEN <<>>
    ELSE IF Head(list) = x THEN Tail(list)
    ELSE <<Head(list)>> \o ListRemove(Tail(list), x)

\* a disconnect that leaves the key in place once its list is empty
UnregisterKeepsKey(connections, key, socket) ==
    [i \in 1..Len(connections) |->
        IF connections[i].key = key
        THEN [connections[i] EXCEPT !.sockets = ListRemove(@, socket)]
        ELSE connections[i]]

\* disconnect: remove the socket from its key's list, delete the key once empty
Unregister(connections, key, socket) ==
    LET removed == [i \in 1..Len(connections) |->
                      IF connections[i].key = key
                      THEN [connections[i] EXCEPT !.sockets = ListRemove(@, socket)]
                      ELSE connections[i]]
    IN  SelectSeq(removed, LAMBDA entry : entry.key # key \/ entry.sockets # <<>>)

\* [socket for sockets in self._connections.values() for socket in sockets]
RECURSIVE AllSockets(_)
AllSockets(connections) ==
    IF connections = <<>> THEN <<>>
    ELSE Head(connections).sockets \o AllSockets(Tail(connections))

\* the targets broadcast copies under the lock
Targets(connections, user_id) ==
    IF user_id = None THEN AllSockets(connections)
    ELSE GetSockets(connections, RegistryKey(user_id))

\* a broadcast that keeps the lock for its sends
LockKeptForSends(holder) == holder

\* leaving "async with self._lock": the lock is released
LockExit(holder) == None

-----------------------------------------------------------------------------
(* deals-worker/src/index.py: the ingestion pipeline *)
(* Prices and scores in thousandths, percentages in thousandths of a percent, *)
(* datetimes in seconds of the clock.                                        *)

\* what ingest_raw_deals may return: deals of the database feeds, which carry the
\* row as raw_data, and deals of the CSV datasets, which do not
RawDeals ==
    { \* hotel_feed: 55 % off, no departure_time
      [type |-> "hotel", reference_id |-> "h1", original_price |-> 200000,
       deal_price |-> 90000, currency |-> "USD", source |-> "hotel_feed",
       raw_data |-> [available_rooms |-> 3]],
      \* airline_feed: 20 % off, departing two days and one clock tick from time 0
      [type |-> "flight", reference_id |-> "f1", original_price |-> 300000,
       deal_price |-> 240000, currency |-> "USD", source |-> "airline_feed",
       route |-> <<"SFO", "LAX">>,
       departure_time |-> IsoFormat(48 * Hour + TickSeconds),
       raw_data |-> [available_seats |-> 60, changeable |-> TRUE,
                     destination_airport_code |-> "LAX"]],
      \* flight_csv: no raw_data, its own discount_percentage
      [type |-> "flight", reference_id |-> "f2", original_price |-> 130000,
       deal_price |-> 100000, currency |-> "USD", source |-> "flight_csv",
       discount_percentage |-> 23080, route |-> <<"JFK", "LAX">>,
       departure_time |-> IsoFormat(240 * Hour)],
      \* a listing whose original price is 0
      [type |-> "hotel", reference_id |-> "h3", original_price |-> 0,
       deal_price |-> 50000, currency |-> "USD", source |-> "airbnb_csv",
       raw_data |-> [available_rooms |-> 1]] }

RawBatches ==
    UNION {{b \in [1..n -> RawDeals] : \A i, j \in 1..n : i # j => b[i] # b[j]} :
              n \in 1..MaxBatch}

\* a feed of eleven hotel rows, one more than emit_deal_events publishes
BigIds == <<"b01", "b02", "b03", "b04", "b05", "b06", "b07", "b08", "b09", "b10", "b11">>

BigBatch ==
    [i \in 1..Len(BigIds) |->
        [type |-> "hotel", reference_id |-> BigIds[i], original_price |-> 200000,
         deal_price |-> 100000 + 10000 * (i % 3), currency |-> "USD",
         source |-> "hotel_feed", raw_data |-> [available_rooms |-> i]]]

\* np.random.uniform(0, 20): the draws the model takes
Popularity == {0, 20000}

\* round(((original - deal) / original) * 100, 2)
DiscountPercentage(original_price, deal_price) ==
    LET x == (original_price - deal_price) * 100
        q == FloorDiv(x, original_price)
        r == x - q * original_price
    IN  Round2(q * 1000 + (r * 1000) \div original_price)

\* normalize_deals raises on this deal: division by zero
NormalizeRaises(deal) == deal.original_price = 0

\* normalize_deals, one deal, at time t
NormalizeDeal(deal, t) ==
    LET discount == DiscountPercentage(deal.original_price, deal.deal_price)
    IN  [discount_percentage |-> discount,
         valid_until |-> IF "departure_time" \in DOMAIN deal
                         THEN IsoFormat(FromIso(deal.departure_time) - 24 * Hour)
                         ELSE IsoFormat(t + 7 * 24 * Hour),
         normalized_at |-> IsoFormat(t),
         confidence |-> IF discount > 30000 THEN 800 ELSE 600] @@ deal

\* calculate_deal_score raises on this deal: a flight without raw_data
ScoreRaises(deal) == deal.type = "flight" /\ "raw_data" \notin DOMAIN deal

\* (valid_until - now) in seconds
TimeUntilValid(deal, t) == FromIso(deal.valid_until) - t

\* calculate_deal_score(deal) at time t with the popularity draw given
calculate_deal_score(deal, t, popularity_boost) ==
    LET discount == deal.discount_percentage
        price_drop == IF discount > 50000 THEN 40000
                      ELSE IF discount > 30000 THEN 30000
                      ELSE IF discount > 20000 THEN 20000
                      ELSE FloorDiv(discount, 2)
        time_until_valid == TimeUntilValid(deal, t)
        timing == IF time_until_valid < 24 * Hour THEN 20000
                  ELSE IF time_until_valid < 72 * Hour THEN 15000
                  ELSE IF time_until_valid < 168 * Hour THEN 10000
                  ELSE 5000
        availability ==
            IF deal.type = "flight"
            THEN (IF deal.raw_data.available_seats > 50 THEN 15000
                  ELSE IF deal.raw_data.available_seats > 20 THEN 10000
                  ELSE 5000)
            ELSE IF deal.type = "hotel" THEN 15000
            ELSE 0
    IN  Round2(price_drop + timing + availability + popularity_boost)

\* scored.sort(key=ai_score, reverse=True): stable, equal keys keep their order
RECURSIVE SortByScore(_)
SortByScore(seq) ==
    IF Len(seq) <= 1 THEN seq
    ELSE LET init == SortByScore(SubSeq(seq, 1, Len(seq) - 1))
             x == seq[Len(seq)]
             pos == Cardinality({i \in 1..Len(init) : init[i].ai_score >= x.ai_score})
         IN  SubSeq(init, 1, pos) \o <<x>> \o SubSeq(init, pos + 1, Len(init))

\* score_deals at time t; boosts[i] is the popularity draw of the i-th deal
score_deals(normalized_deals, t, boosts) ==
    SortByScore([i \in 1..Len(normalized_deals) |->
        [ai_score |-> calculate_deal_score(normalized_deals[i], t, boosts[i]),
         scored_at |-> IsoFormat(t)] @@ normalized_deals[i]])

\* quality tags that test the lower threshold first
QualityTagsLowerFirst(ai_score) ==
    IF ai_score > 60000 THEN <<"good_value">>
    ELSE IF ai_score > 80000 THEN <<"top_pick">>
    ELSE <<>>

\* the quality tags of tag_deals
QualityTags(ai_score) ==
    IF ai_score > 80000 THEN <<"top_pick">>
    ELSE IF ai_score > 60000 THEN <<"good_value">>
    ELSE <<>>

\* tag_deals raises on this deal: a flight without raw_data
TagRaises(deal) == deal.type = "flight" /\ "raw_data" \notin DOMAIN deal

\* tag_deals, one deal, at time t
TagDeal(deal, t) ==
    LET time_until_valid == TimeUntilValid(deal, t)
        tags ==
            (IF deal.discount_percentage > 50000 THEN <<"flash_deal">> ELSE <<>>)
            \o (IF deal.discount_percentage < 15000 THEN <<"minor_discount">> ELSE <<>>)
            \o (IF time_until_valid < 24 * Hour THEN <<"expires_soon">>
                ELSE IF time_until_valid < 168 * Hour THEN <<"limited_time">>
                ELSE <<>>)
            \o (IF deal.type = "flight"
                THEN (IF time_until_valid < 48 * Hour THEN <<"last_minute">>
                      ELSE <<"advance_booking">>)
                ELSE IF deal.type = "hotel" THEN <<"weekend_getaway">>
                ELSE <<>>)
            \o QualityTags(deal.ai_score)
        conditions ==
            IF deal.type = "flight"
            THEN <<"non-refundable">>
                 \o (IF deal.raw_data.changeable THEN <<"changeable with fee">> ELSE <<>>)
            ELSE <<>>
    IN  [tags |-> tags, conditions |-> conditions, tagged_at |-> IsoFormat(t)] @@ deal

\* f"deal_{reference_id}_{int(datetime.now().timestamp())}"
WorkerDealId(deal, t) == <<"deal", deal.reference_id, t>>

\* the document persist_deals writes for a deal at time t
DealDoc(deal, t) ==
    [dealId |-> WorkerDealId(deal, t), type |-> deal.type,
     referenceId |-> deal.reference_id, originalPrice |-> deal.original_price,
     dealPrice |-> deal.deal_price, discountPercentage |-> deal.discount_percentage,
     currency |-> deal.currency, validUntil |-> deal.valid_until,
     conditions |-> deal.conditions, tags |-> deal.tags, aiScore |-> deal.ai_score,
     createdAt |-> t, updatedAt |-> t,
     metadata |-> [source |-> deal.source, confidence |-> deal.confidence]]

\* update_one({referenceId, type}, {$set: doc}, upsert=True) for deals[1..n]
RECURSIVE PersistFirst(_, _, _, _)
PersistFirst(collection, deals, n, t) ==
    IF n = 0 THEN collection
    ELSE Put(PersistFirst(collection, deals, n - 1, t),
             <<deals[n].reference_id, deals[n].type>>, DealDoc(deals[n], t))

\* emit_deal_events: destination and inventory derived from the deal and its row
EventDestination(deal) ==
    LET raw == IF "raw_data" \in DOMAIN deal THEN deal.raw_data ELSE <<>>
    IN  IF deal.type = "flight"
        THEN (IF "destination_airport_code" \in DOMAIN raw
              THEN raw.destination_airport_code
              ELSE IF "route" \in DOMAIN deal THEN deal.route[2] ELSE "Unknown")
        ELSE IF deal.type = "hotel"
        THEN (IF "address_city" \in DOMAIN raw THEN raw.address_city
              ELSE IF "neighborhood" \in DOMAIN deal THEN deal.neighborhood
              ELSE "Unknown")
        ELSE IF "location_code" \in DOMAIN raw THEN raw.location_code ELSE "Unknown"

EventInventory(deal) ==
    LET raw == IF "raw_data" \in DOMAIN deal THEN deal.raw_data ELSE <<>>
        key == IF deal.type = "flight" THEN "available_seats"
               ELSE IF deal.type = "hotel" THEN "available_rooms" ELSE "available"
    IN  IF key \in DOMAIN raw THEN <<raw[key]>> ELSE <<>>

\* the event emit_deal_events builds for a deal at time t
WorkerEvent(deal, t) ==
    [event_type |-> "deal_created", deal_id |-> WorkerDealId(deal, t),
     type |-> deal.type, destination |-> EventDestination(deal),
     price |-> [original |-> deal.original_price, deal |-> deal.deal_price,
                discount |-> deal.discount_percentage],
     score |-> deal.ai_score, tags |-> deal.tags, valid_until |-> deal.valid_until,
     inventory |-> EventInventory(deal), timestamp |-> IsoFormat(t)]

-----------------------------------------------------------------------------
(* The state machine *)

Procs == {"p1", "p2"}

\* before the fan-out no upstream was asked: attempts is 0
NoModes == [svc \in Services |-> [fails |-> 0, items |-> <<>>]]

IdleCall ==
    [pc |-> "idle", request |-> Nil, user_id |-> None,
     upstream |-> NoModes, attempts |-> [svc \in Services |-> 0],
     flights |-> <<>>, hotels |-> <<>>, cars |-> <<>>,
     response |-> Nil, outcome |-> "none", error |-> None,
     cache_hit |-> FALSE, began_after |-> {}, lookup_at |-> -1, stored_at |-> -1,
     commit_failed |-> FALSE]

\* the watch runner between two evaluations
IdleEvaluator ==
    [pc |-> "sleep", watches |-> <<>>, triggered |-> <<>>, j |-> 0, ticks |-> 0,
     outcome |-> "none"]

\* the worker between two pipeline runs
IdleWorker ==
    [pc |-> "sleep", raw |-> <<>>, deals |-> <<>>, written |-> {}, unpublished |-> {},
     outcome |-> "none", runs |-> 0, wake_at |-> 0]

IdleBroadcast ==
    [pc |-> "idle", payload |-> Nil, user_id |-> None, targets |-> <<>>, i |-> 0,
     sent |-> <<>>, outcome |-> "none"]

Init ==
    /\ redis_client \in {None, "client"}
    /\ redis = <<>>
    /\ now = 0
    /\ bundles = <<>>
    /\ cached_deals = <<>>
    /\ uuid_counter = 0
    /\ call = [p \in Procs |-> IdleCall]
    /\ topic = <<>>
    /\ watch_requests = <<>>
    /\ evaluator = IdleEvaluator
    /\ alerts = <<>>
    /\ _connections = <<>>
    /\ _lock = None
    /\ endpoint = [s \in Channels |-> "closed"]
    /\ broadcast = IdleBroadcast
    /\ worker = IdleWorker
    /\ mongo_deals = <<>>
    /\ produced = <<>>

Returned(p) == call[p].pc = "done" /\ call[p].outcome = "returned"

\* `return x` / `raise e` out of generate
Return(c, response) ==
    [c EXCEPT !.pc = "done", !.outcome = "returned", !.response = response,
              !.flights = <<>>, !.hotels = <<>>, !.cars = <<>>]

Raise(c, error) ==
    [c EXCEPT !.pc = "done", !.outcome = "raised", !.error = error,
              !.flights = <<>>, !.hotels = <<>>, !.cars = <<>>]

\* a client calls generate(request, user_id)
Begin(p, request, user_id) ==
    /\ call[p].pc = "idle"
    /\ call' = [call EXCEPT ![p] =
                  [@ EXCEPT !.pc = "lookup", !.request = request, !.user_id = user_id,
                            !.began_after = {q \in Procs : call[q].pc = "done"}]]
    /\ UNCHANGED <<redis_client, redis, now, bundles, cached_deals, uuid_counter>>
    /\ UNCHANGED backgroundVars

\* _cached_response, the GET answering: a hit returns the parsed document,
\* a miss (or no Redis client at all) goes on to the fan-out
CachedResponse(p) ==
    /\ call[p].pc = "lookup"
    /\ LET cached == IF redis_client = None THEN Nil
                     ELSE RedisGet(redis, BundleKey(call[p].request), now)
       IN  call' = [call EXCEPT ![p] =
                IF cached # Nil
                THEN [Return(@, model_validate_json(cached)) EXCEPT
                         !.cache_hit = TRUE, !.lookup_at = now]
                ELSE [@ EXCEPT !.pc = "gather", !.lookup_at = now]]
    /\ UNCHANGED <<redis_client, redis, now, bundles, cached_deals, uuid_counter>>
    /\ UNCHANGED backgroundVars

\* _cached_response, the GET failing: nothing catches the error
CachedResponseRaises(p) ==
    /\ call[p].pc = "lookup"
    /\ redis_client # None
    /\ call' = [call EXCEPT ![p] = [Raise(@, "RedisError") EXCEPT !.lookup_at = now]]
    /\ UNCHANGED <<redis_client, redis, now, bundles, cached_deals, uuid_counter>>
    /\ UNCHANGED backgroundVars

\* _gather_inventory: the three fetches joined; modes is what each upstream does
GatherInventory(p, modes) ==
    /\ call[p].pc = "gather"
    /\ LET request == call[p].request
           f == fetch_flights(request, modes["flights"])
           h == fetch_hotels(request, modes["hotels"])
           c == fetch_cars(request, modes["cars"])
           tried == [svc \in Services |->
                        CASE svc = "flights" -> f.attempts
                          [] svc = "hotels" -> h.attempts
                          [] svc = "cars" -> c.attempts]
       IN  call' = [call EXCEPT ![p] =
                IF f.raised \/ h.raised \/ c.raised
                THEN [Raise(@, "RetryError") EXCEPT !.upstream = modes, !.attempts = tried]
                ELSE [@ EXCEPT !.pc = "compute", !.upstream = modes, !.attempts = tried,
                               !.flights = f.value, !.hotels = h.value, !.cars = c.value]]
    /\ UNCHANGED <<redis_client, redis, now, bundles, cached_deals, uuid_counter>>
    /\ UNCHANGED backgroundVars

\* top_deals answers, then the loops, the sort, the cut and the BundleResponse
Compute(p) ==
    /\ call[p].pc = "compute"
    /\ \E deals \in top_deals(cached_deals, call[p].request.destination, TopDealsLimit) :
          call' = [call EXCEPT ![p] =
              [@ EXCEPT !.pc = "store",
                        !.response = BuildResponse(call[p].request, deals, call[p].flights,
                                                   call[p].hotels, call[p].cars,
                                                   uuid_counter + 1),
                        !.flights = <<>>, !.hotels = <<>>, !.cars = <<>>]]
    /\ uuid_counter' = uuid_counter + 1
    /\ UNCHANGED <<redis_client, redis, now, bundles, cached_deals>>
    /\ UNCHANGED backgroundVars

\* where generate goes after _store_response
AfterStore(c) ==
    IF Truthy(c.user_id) THEN [c EXCEPT !.pc = "persist"] ELSE Return(c, c.response)

\* _store_response: SETEX with the 10-minute TTL when there is a Redis client
StoreResponse(p) ==
    /\ call[p].pc = "store"
    /\ IF redis_client = None
       THEN /\ redis' = redis
            /\ call' = [call EXCEPT ![p] = AfterStore(@)]
       ELSE /\ redis' = RedisSetex(redis, BundleKey(call[p].request), BundleTtl,
                                   model_dump_json(call[p].response), now)
            /\ call' = [call EXCEPT ![p] = AfterStore([@ EXCEPT !.stored_at = now])]
    /\ UNCHANGED <<redis_client, now, bundles, cached_deals, uuid_counter>>
    /\ UNCHANGED backgroundVars

\* _store_response, the SETEX failing
StoreResponseRaises(p) ==
    /\ call[p].pc = "store"
    /\ redis_client # None
    /\ call' = [call EXCEPT ![p] = Raise(@, "RedisError")]
    /\ UNCHANGED <<redis_client, redis, now, bundles, cached_deals, uuid_counter>>
    /\ UNCHANGED backgroundVars

\* cache_bundles, the session: add every record, commit
CacheBundlesCommit(p) ==
    /\ call[p].pc = "persist"
    /\ bundles' = bundles \o BundleRecords(call[p].response, call[p].user_id, now)
    /\ call' = [call EXCEPT ![p] =
                  IF redis_client # None /\ Truthy(@.user_id)
                  THEN [@ EXCEPT !.pc = "mirror"]
                  ELSE Return(@, @.response)]
    /\ UNCHANGED <<redis_client, redis, now, cached_deals, uuid_counter>>
    /\ UNCHANGED backgroundVars

\* cache_bundles, the commit failing: the session rolls back, nothing in
\* cache_bundles or in generate catches the error
CacheBundlesCommitRaises(p) ==
    /\ call[p].pc = "persist"
    /\ call' = [call EXCEPT ![p] =
                  [Raise(@, "SQLAlchemyError") EXCEPT !.commit_failed = TRUE]]
    /\ UNCHANGED <<redis_client, redis, now, bundles, cached_deals, uuid_counter>>
    /\ UNCHANGED backgroundVars

\* cache_bundles, the per-user SETEX with the 15-minute TTL
CacheBundlesSetex(p) ==
    /\ call[p].pc = "mirror"
    /\ redis' = RedisSetex(redis, UserBundlesKey(call[p].user_id, call[p].response.search_id),
                           UserBundlesTtl, model_dump_json(call[p].response), now)
    /\ call' = [call EXCEPT ![p] = Return(@, @.response)]
    /\ UNCHANGED <<redis_client, now, bundles, cached_deals, uuid_counter>>
    /\ UNCHANGED backgroundVars

\* cache_bundles, the per-user SETEX failing
CacheBundlesSetexRaises(p) ==
    /\ call[p].pc = "mirror"
    /\ call' = [call EXCEPT ![p] = Raise(@, "RedisError")]
    /\ UNCHANGED <<redis_client, redis, now, bundles, cached_deals, uuid_counter>>
    /\ UNCHANGED backgroundVars

\* DealCache.upsert_deal_event(event)
upsert_deal_event(event) ==
    /\ cached_deals' = IF UpsertRaises(event) THEN cached_deals
                       ELSE Put(cached_deals, event.deal_id, UpsertRow(cached_deals, event, now))
    /\ UNCHANGED <<redis_client, redis, now, bundles, uuid_counter, call>>
    /\ UNCHANGED backgroundVars

\* DealEventConsumer._consume, one message: parse, validate, upsert; whatever is
\* raised on the way is printed and the loop goes on to the next message
_consume(payload) ==
    /\ Len(topic) < MaxMessages
    /\ LET event == ParseDealEvent(payload)
           raises == IF event = Nil THEN TRUE ELSE UpsertRaises(event)
       IN  /\ cached_deals' = IF raises THEN cached_deals
                              ELSE Put(cached_deals, event.deal_id,
                                       UpsertRow(cached_deals, event, now))
           /\ topic' = Append(topic, [payload |-> payload, applied |-> ~raises])
    /\ UNCHANGED <<engineVars, workerVars, now, uuid_counter, watchVars, registryVars>>

\* _consume, one message whose upsert fails at the commit: printed, nothing written
ConsumeCommitRaises(payload) ==
    /\ Len(topic) < MaxMessages
    /\ ParseDealEvent(payload) # Nil
    /\ topic' = Append(topic, [payload |-> payload, applied |-> FALSE])
    /\ UNCHANGED <<engineVars, workerVars, now, cached_deals, uuid_counter, watchVars, registryVars>>

\* DealCache.create_watch(payload): a new active row under a fresh id
create_watch(payload) ==
    /\ Cardinality(DOMAIN watch_requests) < MaxWatches
    /\ watch_requests' = Put(watch_requests, <<"watch", uuid_counter + 1>>,
                             NewWatch(payload, <<"watch", uuid_counter + 1>>, now))
    /\ uuid_counter' = uuid_counter + 1
    /\ UNCHANGED <<engineVars, workerVars, now, cached_deals, feedVars, evaluator, alerts, registryVars>>

\* an evaluation is over: the runner sleeps until the next one
EndEvaluation(e, outcome) ==
    [e EXCEPT !.pc = "sleep", !.outcome = outcome, !.ticks = @ + 1]

\* evaluate_watches, the first session: the active watches; return if there are none
EvaluateSelect ==
    /\ evaluator.pc = "sleep"
    /\ evaluator.ticks < MaxEvaluations
    /\ \E watches \in SelectActive(watch_requests) :
          evaluator' =
              IF watches = <<>>
              THEN EndEvaluation([evaluator EXCEPT !.watches = <<>>, !.triggered = <<>>,
                                                   !.j = 0], "returned")
              ELSE [evaluator EXCEPT !.pc = "deals", !.watches = watches,
                                     !.triggered = <<>>, !.j = 0, !.outcome = "none"]
    /\ UNCHANGED <<engineVars, workerVars, now, cached_deals, uuid_counter, feedVars,
                   watch_requests, alerts, registryVars>>

\* evaluate_watches: top_deals() answers, deal_map, the trigger loop; return if
\* nothing was triggered
EvaluateTrigger ==
    /\ evaluator.pc = "deals"
    /\ \E deals \in top_deals(cached_deals, None, TopDealsLimit) :
          LET triggered == Triggered(evaluator.watches, deals)
          IN  evaluator' =
                  IF triggered = <<>>
                  THEN EndEvaluation(evaluator, "returned")
                  ELSE [evaluator EXCEPT !.pc = "commit", !.triggered = triggered]
    /\ UNCHANGED <<engineVars, workerVars, now, cached_deals, uuid_counter, feedVars,
                   watch_requests, alerts, registryVars>>

\* evaluate_watches, the second session: merge every triggered watch, commit
EvaluateCommit ==
    /\ evaluator.pc = "commit"
    /\ watch_requests' = MergeTriggered(watch_requests, evaluator.triggered, now)
    /\ evaluator' = [evaluator EXCEPT !.pc = "alert", !.j = 1]
    /\ UNCHANGED <<engineVars, workerVars, now, cached_deals, uuid_counter, feedVars,
                   alerts, registryVars>>

\* a runner without the try/except: the exception ends the loop
ErrorPropagates(e) == [e EXCEPT !.pc = "dead", !.outcome = "raised", !.ticks = @ + 1]

\* periodic_watch_runner: "except Exception" prints the error, then the sleep
ErrorSwallowed(e) == EndEvaluation(e, "raised")

\* the second session's commit failing: evaluate_watches raises, the runner prints
EvaluateCommitRaises ==
    /\ evaluator.pc = "commit"
    /\ evaluator' = ErrorSwallowed(evaluator)
    /\ UNCHANGED <<engineVars, workerVars, now, cached_deals, uuid_counter, feedVars,
                   watch_requests, alerts, registryVars>>

\* evaluate_watches, the alert loop at triggered[j]: build the WatchEvent and call
\* ws_manager.broadcast(payload, user_id=watch.user_id)
EvaluateBroadcast ==
    /\ evaluator.pc = "alert"
    /\ LET pair == evaluator.triggered[evaluator.j]
           payload == DealAlert(pair.watch, pair.deal, now)
       IN  /\ broadcast' = [IdleBroadcast EXCEPT !.pc = "acquire", !.payload = payload,
                                                 !.user_id = pair.watch.user_id]
           /\ alerts' = Append(alerts, [tick |-> evaluator.ticks + 1,
                                        user_id |-> pair.watch.user_id,
                                        payload |-> payload])
    /\ evaluator' = [evaluator EXCEPT !.pc = "broadcast"]
    /\ UNCHANGED <<engineVars, workerVars, now, cached_deals, uuid_counter, feedVars,
                   watch_requests, _connections, _lock, endpoint>>

\* the user_id arguments broadcast is called with: omitted, a user with channels,
\* and a user whose id is the string "anon"
BroadcastUsers == {None, "u1", "anon"}

\* WebSocketManager.broadcast(payload, user_id) called by another caller than the
\* watch runner, while the runner sleeps
BroadcastCall(user_id) ==
    /\ broadcast.pc \in {"idle", "done"}
    /\ evaluator.pc = "sleep"
    /\ broadcast' = [IdleBroadcast EXCEPT !.pc = "acquire", !.payload = [type |-> "notice"],
                                          !.user_id = user_id]
    /\ UNCHANGED <<engineVars, workerVars, now, cached_deals, uuid_counter, feedVars,
                   watchVars, _connections, _lock, endpoint>>

\* evaluate_watches once broadcast has returned: the next pair, or the end
AfterBroadcast(e) ==
    IF e.pc # "broadcast" THEN e
    ELSE IF e.j < Len(e.triggered)
    THEN [e EXCEPT !.pc = "alert", !.j = @ + 1]
    ELSE EndEvaluation(e, "returned")

\* broadcast: "async with self._lock" is entered
BroadcastAcquire ==
    /\ broadcast.pc = "acquire"
    /\ _lock = None
    /\ _lock' = "broadcast"
    /\ broadcast' = [broadcast EXCEPT !.pc = "locked"]
    /\ UNCHANGED <<engineVars, workerVars, now, cached_deals, uuid_counter, feedVars, watchVars,
                   _connections, endpoint>>

\* broadcast: the targets are copied and the "async with" block is left
BroadcastSnapshot ==
    /\ broadcast.pc = "locked"
    /\ _lock' = LockExit(_lock)
    /\ LET targets == Targets(_connections, broadcast.user_id)
       IN  IF targets = <<>>
           THEN /\ broadcast' = [broadcast EXCEPT !.pc = "done", !.outcome = "returned"]
                /\ evaluator' = AfterBroadcast(evaluator)
           ELSE /\ broadcast' = [broadcast EXCEPT !.pc = "send", !.targets = targets,
                                                  !.i = 1]
                /\ evaluator' = evaluator
    /\ UNCHANGED <<engineVars, workerVars, now, cached_deals, uuid_counter, feedVars,
                   watch_requests, alerts, _connections, endpoint>>

\* broadcast: await socket.send_json(payload) on targets[i] completes
SendJson ==
    /\ broadcast.pc = "send"
    /\ IF broadcast.i < Len(broadcast.targets)
       THEN /\ broadcast' = [broadcast EXCEPT !.sent = Append(@, broadcast.targets[broadcast.i]),
                                              !.i = @ + 1]
            /\ evaluator' = evaluator
       ELSE /\ broadcast' = [broadcast EXCEPT !.sent = Append(@, broadcast.targets[broadcast.i]),
                                              !.pc = "done", !.outcome = "returned"]
            /\ evaluator' = AfterBroadcast(evaluator)
    /\ UNCHANGED <<engineVars, workerVars, now, cached_deals, uuid_counter, feedVars,
                   watch_requests, alerts, _connections, _lock, endpoint>>

\* broadcast: send_json on targets[i] raises; nothing in broadcast or in
\* evaluate_watches catches it, the runner prints it
SendJsonRaises ==
    /\ broadcast.pc = "send"
    /\ broadcast' = [broadcast EXCEPT !.pc = "done", !.outcome = "raised"]
    /\ evaluator' = IF evaluator.pc = "broadcast" THEN ErrorSwallowed(evaluator)
                    ELSE evaluator
    /\ UNCHANGED <<engineVars, workerVars, now, cached_deals, uuid_counter, feedVars,
                   watch_requests, alerts, _connections, _lock, endpoint>>

\* lifespan shutdown: task.cancel() on the runner.  CancelledError is raised at the
\* await the task is suspended in, the sleep or any await of evaluate_watches or
\* broadcast; it is not an Exception, so the runner's except does not catch it.
\* A broadcast under way is left, and with it its "async with self._lock".
Cancel ==
    /\ evaluator.pc \notin {"cancelled", "dead"}
    /\ evaluator' = [evaluator EXCEPT !.pc = "cancelled"]
    /\ broadcast' = IF broadcast.pc \in {"acquire", "locked", "send"}
                    THEN [broadcast EXCEPT !.pc = "done", !.outcome = "cancelled"]
                    ELSE broadcast
    /\ _lock' = IF _lock = "broadcast" THEN None ELSE _lock
    /\ UNCHANGED <<engineVars, workerVars, now, cached_deals, uuid_counter, feedVars,
                   watch_requests, alerts, _connections, endpoint>>

\* websocket_endpoint: connect has accepted the socket and entered the lock
ConnectAcquire(s) ==
    /\ endpoint[s] = "closed"
    /\ _lock = None
    /\ _lock' = s
    /\ endpoint' = [endpoint EXCEPT ![s] = "connect"]
    /\ UNCHANGED <<engineVars, workerVars, now, cached_deals, uuid_counter, feedVars, watchVars,
                   _connections, broadcast>>

\* connect: the socket is appended under its key and the lock is left
ConnectRegister(s) ==
    /\ endpoint[s] = "connect"
    /\ _connections' = Register(_connections, RegistryKey(SocketUser(s)), s)
    /\ _lock' = LockExit(_lock)
    /\ endpoint' = [endpoint EXCEPT ![s] = "open"]
    /\ UNCHANGED <<engineVars, workerVars, now, cached_deals, uuid_counter, feedVars, watchVars,
                   broadcast>>

\* websocket_endpoint on WebSocketDisconnect: disconnect has entered the lock
DisconnectAcquire(s) ==
    /\ endpoint[s] = "open"
    /\ _lock = None
    /\ _lock' = s
    /\ endpoint' = [endpoint EXCEPT ![s] = "disconnect"]
    /\ UNCHANGED <<engineVars, workerVars, now, cached_deals, uuid_counter, feedVars, watchVars,
                   _connections, broadcast>>

\* disconnect: the socket is removed and the lock is left
DisconnectUnregister(s) ==
    /\ endpoint[s] = "disconnect"
    /\ _connections' = Unregister(_connections, RegistryKey(SocketUser(s)), s)
    /\ _lock' = LockExit(_lock)
    /\ endpoint' = [endpoint EXCEPT ![s] = "closed"]
    /\ UNCHANGED <<engineVars, workerVars, now, cached_deals, uuid_counter, feedVars, watchVars,
                   broadcast>>

\* run_continuous: the pipeline is over with this outcome, asyncio.sleep(300)
EndRun(w, outcome) ==
    [w EXCEPT !.pc = "sleep", !.outcome = outcome, !.runs = @ + 1,
              !.wake_at = now + WorkerSleep]

\* process_deals_pipeline: "except Exception" prints and the run is over
PipelineError(w) == EndRun(w, "error")

\* run_continuous starts process_deals_pipeline; ingest_raw_deals returns a batch
Ingest(batch) ==
    /\ worker.pc = "sleep"
    /\ worker.runs < MaxRuns
    /\ now >= worker.wake_at
    /\ worker' = [worker EXCEPT !.pc = "normalize", !.raw = batch, !.deals = batch,
                                !.written = {}, !.unpublished = {},
                                !.outcome = "none"]
    /\ UNCHANGED <<engineVars, now, cached_deals, uuid_counter, feedVars, watchVars,
                   registryVars, mongo_deals, produced>>

\* process_deals_pipeline called once more, the clock not having moved, and
\* ingest_raw_deals returning what it returned before
IngestAgain ==
    /\ worker.pc = "sleep"
    /\ worker.runs = 1
    /\ worker' = [worker EXCEPT !.pc = "normalize", !.deals = worker.raw,
                                !.written = {}, !.unpublished = {},
                                !.outcome = "none"]
    /\ UNCHANGED <<engineVars, now, cached_deals, uuid_counter, feedVars, watchVars,
                   registryVars, mongo_deals, produced>>

\* normalize_deals over the batch
Normalize ==
    /\ worker.pc = "normalize"
    /\ worker' =
          IF \E i \in 1..Len(worker.deals) : NormalizeRaises(worker.deals[i])
          THEN PipelineError(worker)
          ELSE [worker EXCEPT !.pc = "score",
                              !.deals = [i \in 1..Len(worker.deals) |->
                                            NormalizeDeal(worker.deals[i], now)]]
    /\ UNCHANGED <<engineVars, now, cached_deals, uuid_counter, feedVars, watchVars,
                   registryVars, mongo_deals, produced>>

\* score_deals over the batch, and its sort, with the popularity draws given
ScoreWith(boosts) ==
    /\ worker.pc = "score"
    /\ worker' =
          IF \E i \in 1..Len(worker.deals) : ScoreRaises(worker.deals[i])
          THEN PipelineError(worker)
          ELSE [worker EXCEPT !.pc = "tag",
                              !.deals = score_deals(worker.deals, now, boosts)]
    /\ UNCHANGED <<engineVars, now, cached_deals, uuid_counter, feedVars, watchVars,
                   registryVars, mongo_deals, produced>>

\* score_deals, every deal with a draw of its own
Score == \E boosts \in [1..Len(worker.deals) -> Popularity] : ScoreWith(boosts)

\* score_deals, every deal of the batch with the same draw
ScoreUniform == \E b \in Popularity : ScoreWith([i \in 1..Len(worker.deals) |-> b])

\* tag_deals over the batch
Tag ==
    /\ worker.pc = "tag"
    /\ worker' =
          IF \E i \in 1..Len(worker.deals) : TagRaises(worker.deals[i])
          THEN PipelineError(worker)
          ELSE [worker EXCEPT !.pc = "persist",
                              !.deals = [i \in 1..Len(worker.deals) |->
                                            TagDeal(worker.deals[i], now)]]
    /\ UNCHANGED <<engineVars, now, cached_deals, uuid_counter, feedVars, watchVars,
                   registryVars, mongo_deals, produced>>

\* the documents written for deals[1..n]
Written(deals, n) == {<<deals[i].reference_id, deals[i].type>> : i \in 1..n}

\* persist_deals: every deal of the batch is upserted
Persist ==
    /\ worker.pc = "persist"
    /\ mongo_deals' = PersistFirst(mongo_deals, worker.deals, Len(worker.deals), now)
    /\ worker' = [worker EXCEPT !.pc = "emit",
                                !.written = Written(worker.deals, Len(worker.deals))]
    /\ UNCHANGED <<engineVars, now, cached_deals, uuid_counter, feedVars, watchVars,
                   registryVars, produced>>

\* persist_deals: update_one raises at deals[k], after the deals before it were written
PersistRaises(k) ==
    /\ worker.pc = "persist"
    /\ k \in 1..Len(worker.deals)
    /\ mongo_deals' = PersistFirst(mongo_deals, worker.deals, k - 1, now)
    /\ worker' = PipelineError([worker EXCEPT !.written = Written(worker.deals, k - 1)])
    /\ UNCHANGED <<engineVars, now, cached_deals, uuid_counter, feedVars, watchVars,
                   registryVars, produced>>

\* the indices of deals[:10]
TopTen(deals) == 1..Min(EmitLimit, Len(deals))

\* a publishing loop that ends at the first send that fails
PublishedUntilFailure(deals, failed, t) ==
    LET sent == Cardinality({i \in TopTen(deals) : \A j \in failed : j > i})
    IN  [i \in 1..sent |-> WorkerEvent(deals[i], t)]

\* the loop of emit_deal_events at time t: the events of the first ten deals, in
\* order, without those whose send_and_wait raised (each is caught on its own)
Published(deals, failed, t) ==
    LET kept == SelectSeq([i \in TopTen(deals) |-> i], LAMBDA i : i \notin failed)
    IN  [k \in 1..Len(kept) |-> WorkerEvent(deals[kept[k]], t)]

\* emit_deal_events with a producer; send_and_wait raises for the events of the
\* deals whose indices are in `failed`
EmitWith(failed) ==
    /\ worker.pc = "emit"
    /\ failed \subseteq TopTen(worker.deals)
    /\ produced' = produced \o Published(worker.deals, failed, now)
    /\ worker' = EndRun([worker EXCEPT !.unpublished = failed], "processed")
    /\ UNCHANGED <<engineVars, now, cached_deals, uuid_counter, feedVars, watchVars,
                   registryVars, mongo_deals>>

\* emit_deal_events with a producer: the first ten deals are published
Emit == EmitWith({})

\* emit_deal_events with a producer, some of whose sends fail
EmitFailing ==
    \E failed \in SUBSET TopTen(worker.deals) : failed # {} /\ EmitWith(failed)

\* emit_deal_events without a producer: nothing is published
EmitSkipped ==
    /\ worker.pc = "emit"
    /\ worker' = EndRun([worker EXCEPT !.unpublished = TopTen(worker.deals)], "processed")
    /\ UNCHANGED <<engineVars, now, cached_deals, uuid_counter, feedVars, watchVars,
                   registryVars, mongo_deals, produced>>

\* time passes
Tick ==
    /\ now < MaxTicks * TickSeconds
    /\ now' = now + TickSeconds
    /\ redis' = RedisExpire(redis, now')
    /\ UNCHANGED <<redis_client, bundles, cached_deals, uuid_counter, call>>
    /\ UNCHANGED backgroundVars

-----------------------------------------------------------------------------
(* Specifications *)

\* the upstream behaviours drawn where two calls interleave: all three services
\* answering with two options each, or all three failing on every attempt
SmallModes ==
    { [svc \in Services |-> [fails |-> 0, items |-> Take(Inventory(svc), 2)]],
      [svc \in Services |-> [fails |-> StopAfterAttempt, items |-> Inventory(svc)]] }

\* Two clients call generate, in any interleaving, while time passes.
Next ==
    \/ \E p \in Procs, request \in Requests, user_id \in UserIds :
          Begin(p, request, user_id)
    \/ \E p \in Procs : CachedResponse(p)
    \/ \E p \in Procs : CachedResponseRaises(p)
    \/ \E p \in Procs, modes \in SmallModes : GatherInventory(p, modes)
    \/ \E p \in Procs : Compute(p)
    \/ \E p \in Procs : StoreResponse(p)
    \/ \E p \in Procs : StoreResponseRaises(p)
    \/ \E p \in Procs : CacheBundlesCommit(p)
    \/ \E p \in Procs : CacheBundlesCommitRaises(p)
    \/ \E p \in Procs : CacheBundlesSetex(p)
    \/ \E p \in Procs : CacheBundlesSetexRaises(p)
    \/ Tick

Spec == Init /\ [][Next]_vars

AllModes == {m \in [Services -> UNION {UpstreamModes(svc) : svc \in Services}] :
                \A svc \in Services : m[svc] \in UpstreamModes(svc)}

AllIdle == \A p \in Procs : call[p].pc = "idle"

\* The pipeline on its whole input space: any deal events are applied first, then
\* one client calls generate against any behaviour of the three upstreams.
NextPipeline ==
    \/ \E event \in DealEvents : AllIdle /\ upsert_deal_event(event)
    \/ \E request \in Requests, user_id \in UserIds : Begin("p1", request, user_id)
    \/ CachedResponse("p1")
    \/ CachedResponseRaises("p1")
    \/ \E modes \in AllModes : GatherInventory("p1", modes)
    \/ Compute("p1")
    \/ StoreResponse("p1")
    \/ StoreResponseRaises("p1")
    \/ CacheBundlesCommit("p1")
    \/ CacheBundlesCommitRaises("p1")
    \/ CacheBundlesSetex("p1")
    \/ CacheBundlesSetexRaises("p1")

SpecPipeline == Init /\ [][NextPipeline]_vars

\* The deal consumer alone: messages arrive on deal.events while time passes; the
\* commits that fail are those of messages for d1.
NextDeals ==
    \/ \E payload \in DealPayloads : _consume(payload)
    \/ \E payload \in {x \in DealPayloads : "deal_id" \in DOMAIN x /\ x.deal_id = "d1"} :
          ConsumeCommitRaises(payload)
    \/ Tick

SpecDeals == Init /\ [][NextDeals]_vars

\* The watch runner and the connection registry: watches are created, deal events
\* are applied, sockets connect and disconnect, and the runner evaluates.
NextWatch ==
    \/ \E payload \in WatchCreates : create_watch(payload)
    \/ \E event \in WatchDealEvents : upsert_deal_event(event)
    \/ EvaluateSelect
    \/ EvaluateTrigger
    \/ EvaluateCommit
    \/ EvaluateCommitRaises
    \/ EvaluateBroadcast
    \/ BroadcastAcquire
    \/ BroadcastSnapshot
    \/ SendJson
    \/ SendJsonRaises
    \/ ConnectAcquire("s1")
    \/ ConnectRegister("s1")
    \/ DisconnectAcquire("s1")
    \/ DisconnectUnregister("s1")

SpecWatch == Init /\ [][NextWatch]_vars

\* The service starts on a database that already holds two active watches of u1
\* for LAX and the deal d1 ...
InitRegistry ==
    /\ redis_client \in {None, "client"}
    /\ redis = <<>>
    /\ now = 0
    /\ bundles = <<>>
    /\ cached_deals =
          LET event == CHOOSE e \in WatchDealEvents : e.deal_id = "d1"
          IN  Put(<<>>, "d1", UpsertRow(<<>>, event, 0))
    /\ uuid_counter = 0
    /\ call = [p \in Procs |-> IdleCall]
    /\ topic = <<>>
    /\ watch_requests =
          [id \in {<<"watch", -1>>, <<"watch", -2>>} |->
              NewWatch(WatchRequestCreate("u1", "LAX", 200000), id, 0)]
    /\ evaluator = IdleEvaluator
    /\ alerts = <<>>
    /\ _connections = <<>>
    /\ _lock = None
    /\ endpoint = [s \in Channels |-> "closed"]
    /\ broadcast = IdleBroadcast
    /\ worker = IdleWorker
    /\ mongo_deals = <<>>
    /\ produced = <<>>

\* ... and two clients of u1 connect and disconnect while the runner evaluates.
NextRegistry ==
    \/ EvaluateSelect
    \/ EvaluateTrigger
    \/ EvaluateCommit
    \/ EvaluateBroadcast
    \/ BroadcastAcquire
    \/ BroadcastSnapshot
    \/ SendJson
    \/ SendJsonRaises
    \/ \E s \in Sockets : ConnectAcquire(s)
    \/ \E s \in Sockets : ConnectRegister(s)
    \/ \E s \in Sockets : DisconnectAcquire(s)
    \/ \E s \in Sockets : DisconnectUnregister(s)

SpecRegistry == InitRegistry /\ [][NextRegistry]_vars

\* A cache of six deals, one more than top_deals returns: the lowest-scoring one
\* is the only LAX deal under 100.00
CrowdedDeals ==
    { DealEvent("c1", "flight", "JFK", <<"SFO", "to", "JFK">>,
                [original |-> 300000, deal |-> 250000, discount |-> 50000], 95000, 300, <<7>>),
      DealEvent("c2", "hotel", "LAX", <<"Kayak", "Grand", "week">>,
                [original |-> 200000, deal |-> 180000, discount |-> 20000], 90000, 300, <<4>>),
      DealEvent("c3", "hotel", "JFK", <<"hotel", "test", "autumn">>,
                [original |-> 120000, deal |-> 90000, discount |-> 30000], 85000, 300, <<2>>),
      DealEvent("c4", "flight", "LAX", <<"SFO", "to", "LAX">>,
                [original |-> 150000, deal |-> 120000, discount |-> 30000], 80000, 300, <<9>>),
      DealEvent("c5", "car", "JFK", <<"SUV", "weekend">>,
                [original |-> 350000, deal |-> 300000, discount |-> 50000], 80000, 300, <<1>>),
      DealEvent("c6", "hotel", "LAX", <<"hotel", "test", "spring", "sale">>,
                [original |-> 110000, deal |-> 90000, discount |-> 20000], 70000, 300, <<3>>) }

\* The service starts on a database that holds the six deals and three active
\* watches of u1: LAX up to 200.00, LAX up to 100.00, JFK up to 300.00 ...
InitRunner ==
    /\ redis_client = None
    /\ redis = <<>>
    /\ now = 0
    /\ bundles = <<>>
    /\ cached_deals = [d \in {e.deal_id : e \in CrowdedDeals} |->
                          UpsertRow(<<>>, CHOOSE e \in CrowdedDeals : e.deal_id = d, 0)]
    /\ uuid_counter = 0
    /\ call = [p \in Procs |-> IdleCall]
    /\ topic = <<>>
    /\ watch_requests =
          [id \in {<<"watch", -1>>, <<"watch", -2>>, <<"watch", -3>>} |->
              NewWatch(IF id[2] = -1 THEN WatchRequestCreate("u1", "LAX", 200000)
                       ELSE IF id[2] = -2 THEN WatchRequestCreate("u1", "LAX", 100000)
                       ELSE WatchRequestCreate("u1", "JFK", 300000), id, 0)]
    /\ evaluator = IdleEvaluator
    /\ alerts = <<>>
    /\ _connections = <<>>
    /\ _lock = None
    /\ endpoint = [s \in Channels |-> "closed"]
    /\ broadcast = IdleBroadcast
    /\ worker = IdleWorker
    /\ mongo_deals = <<>>
    /\ produced = <<>>

\* ... and the runner evaluates, one client of u1 connects, and the service may
\* shut down at any moment.
NextRunner ==
    \/ EvaluateSelect
    \/ EvaluateTrigger
    \/ EvaluateCommit
    \/ EvaluateCommitRaises
    \/ EvaluateBroadcast
    \/ BroadcastAcquire
    \/ BroadcastSnapshot
    \/ SendJson
    \/ SendJsonRaises
    \/ ConnectAcquire("s1")
    \/ ConnectRegister("s1")
    \/ Cancel

SpecRunner == InitRunner /\ [][NextRunner]_vars

\* asyncio.sleep(interval_seconds) returns: a runner that sleeps starts its next
\* evaluation
LiveRunner == SpecRunner /\ WF_vars(EvaluateSelect)

\* the user_id path parameters GET /concierge/bundles/user/{user_id} is called
\* with: the two users, and a user_id that is a pattern
ListUsers == {"user-123", "user-456", "*"}

\* the limits bundles_for_user is called with; the endpoint uses the default
ListLimits == {1, 3, 10}

\* Redis glob matching of one key segment: "*" matches any text, any other
\* pattern of the model matches itself
GlobMatch(pattern, text) == pattern = "*" \/ pattern = text

\* redis.keys(f"bundles:{user_id}:*"): the live keys matching the pattern
RedisKeys(store, user_id, t) ==
    {k \in DOMAIN store : /\ k[1] = "bundles"
                          /\ store[k].expires_at > t
                          /\ GlobMatch(user_id, k[2])}

\* the orders in which KEYS may return a set of keys
KeyOrders(keys) ==
    {order \in [1..Cardinality(keys) -> keys] :
        \A i, j \in 1..Cardinality(keys) : i # j => order[i] # order[j]}

\* the hot-cache loop of bundles_for_user: the bundles of the first `limit` keys
RECURSIVE HotBundles(_, _, _)
HotBundles(store, keys, t) ==
    IF keys = <<>> THEN <<>>
    ELSE LET raw == RedisGet(store, Head(keys), t)
         IN  (IF raw = Nil THEN <<>> ELSE model_validate_json(raw).bundles)
                \o HotBundles(store, Tail(keys), t)

\* ORDER BY created_at DESC over rows kept in insertion order; rows of equal
\* created_at come in insertion order or in its reverse
RECURSIVE NewestFirst(_, _)
NewestFirst(rows, reversed) ==
    IF rows = <<>> THEN <<>>
    ELSE LET newest == CHOOSE i \in 1..Len(rows) :
                          /\ \A j \in 1..Len(rows) : rows[j].created_at <= rows[i].created_at
                          /\ \A j \in 1..Len(rows) :
                                rows[j].created_at = rows[i].created_at =>
                                    IF reversed THEN j <= i ELSE j >= i
         IN  <<rows[newest]>>
                \o NewestFirst([k \in 1..(Len(rows) - 1) |->
                                   IF k < newest THEN rows[k] ELSE rows[k + 1]], reversed)

\* the select of bundles_for_user and the Bundle built from each row
DurableBundles(rows, user_id, limit, reversed) ==
    LET mine   == SelectSeq(rows, LAMBDA row : row.user_id = user_id)
        chosen == Take(NewestFirst(mine, reversed), limit)
    IN  [i \in 1..Len(chosen) |->
            [id |-> chosen[i].id, destination |-> chosen[i].destination,
             total_price |-> chosen[i].total_price, savings |-> chosen[i].savings,
             fit_score |-> chosen[i].fit_score, explanation |-> chosen[i].explanation,
             valid_until |-> chosen[i].valid_until, components |-> chosen[i].components]]

\* what a finished bundles_for_user leaves of its call
ListedCall(user_id, limit, result, hot, t) ==
    [IdleCall EXCEPT !.pc = "done", !.outcome = "listed", !.user_id = user_id,
                     !.request = [limit |-> limit], !.response = [bundles |-> result],
                     !.cache_hit = hot, !.lookup_at = t]

\* DealCache.bundles_for_user(user_id, limit)
bundles_for_user(p, user_id, limit) ==
    /\ call[p].pc \in {"idle", "done"}
    /\ \E order \in KeyOrders(IF redis_client = None THEN {}
                              ELSE RedisKeys(redis, user_id, now)),
          reversed \in BOOLEAN :
          LET hot == HotBundles(redis, Take(order, limit), now)
          IN  call' = [call EXCEPT ![p] =
                  IF hot # <<>>
                  THEN ListedCall(user_id, limit, Take(hot, limit), TRUE, now)
                  ELSE ListedCall(user_id, limit,
                                  DurableBundles(bundles, user_id, limit, reversed),
                                  FALSE, now)]
    /\ UNCHANGED <<redis_client, redis, now, bundles, cached_deals, uuid_counter>>
    /\ UNCHANGED backgroundVars

\* the users who ask for bundles
Callers == {"user-123", "user-456"}

\* Two users ask for bundles, one each, in any interleaving, while time passes.
NextShared ==
    \/ \E request \in Requests : Begin("p1", request, "user-123")
    \/ \E request \in Requests : Begin("p2", request, "user-456")
    \/ \E p \in Procs : CachedResponse(p)
    \/ \E p \in Procs, modes \in SmallModes : GatherInventory(p, modes)
    \/ \E p \in Procs : Compute(p)
    \/ \E p \in Procs : StoreResponse(p)
    \/ \E p \in Procs : CacheBundlesCommit(p)
    \/ \E p \in Procs : CacheBundlesSetex(p)
    \/ Tick

SpecShared == Init /\ [][NextShared]_vars

\* the response of a generate(RequestB, "user-456") that ended at time 0
EarlierResponse ==
    LET mode(svc) == [fails |-> 0, items |-> Take(Inventory(svc), 2)]
    IN  BuildResponse(RequestB, <<>>, fetch_flights(RequestB, mode("flights")).value,
                      fetch_hotels(RequestB, mode("hotels")).value,
                      fetch_cars(RequestB, mode("cars")).value, 1)

\* the state that call has left: its rows, and its two hot-cache entries when
\* there is a Redis client
InitUsers ==
    /\ redis_client \in {None, "client"}
    /\ redis = IF redis_client = None THEN <<>>
               ELSE RedisSetex(RedisSetex(<<>>, BundleKey(RequestB), BundleTtl,
                                          model_dump_json(EarlierResponse), 0),
                               UserBundlesKey("user-456", EarlierResponse.search_id),
                               UserBundlesTtl, model_dump_json(EarlierResponse), 0)
    /\ now = 0
    /\ bundles = BundleRecords(EarlierResponse, "user-456", 0)
    /\ cached_deals = <<>>
    /\ uuid_counter = 1
    /\ call = [p \in Procs |-> IdleCall]
    /\ topic = <<>>
    /\ watch_requests = <<>>
    /\ evaluator = IdleEvaluator
    /\ alerts = <<>>
    /\ _connections = <<>>
    /\ _lock = None
    /\ endpoint = [s \in Channels |-> "closed"]
    /\ broadcast = IdleBroadcast
    /\ worker = IdleWorker
    /\ mongo_deals = <<>>
    /\ produced = <<>>

\* One client asks for bundles as either user while another lists the bundles of
\* a user, and time passes.
NextUsers ==
    \/ \E request \in Requests, user_id \in Callers : Begin("p1", request, user_id)
    \/ CachedResponse("p1")
    \/ \E modes \in SmallModes : GatherInventory("p1", modes)
    \/ Compute("p1")
    \/ StoreResponse("p1")
    \/ CacheBundlesCommit("p1")
    \/ CacheBundlesSetex("p1")
    \/ \E user_id \in ListUsers, limit \in ListLimits :
          bundles_for_user("p2", user_id, limit)
    \/ Tick

SpecUsers == InitUsers /\ [][NextUsers]_vars

\* The connection manager alone: clients of u1, of u2 and without a userId connect
\* and disconnect while broadcasts are called.
NextManager ==
    \/ \E s \in Channels : ConnectAcquire(s)
    \/ \E s \in Channels : ConnectRegister(s)
    \/ \E s \in Channels : DisconnectAcquire(s)
    \/ \E s \in Channels : DisconnectUnregister(s)
    \/ \E user_id \in BroadcastUsers : BroadcastCall(user_id)
    \/ BroadcastAcquire
    \/ BroadcastSnapshot
    \/ SendJson
    \/ SendJsonRaises

InitManager == Init /\ redis_client = None

SpecManager == InitManager /\ [][NextManager]_vars

\* The deals worker: pipeline runs over any batch, while time passes between
\* the stages.
NextWorker ==
    \/ \E batch \in RawBatches : Ingest(batch)
    \/ Normalize
    \/ Score
    \/ Tag
    \/ Persist
    \/ \E k \in 1..MaxBatch : PersistRaises(k)
    \/ Emit
    \/ EmitFailing
    \/ EmitSkipped
    \/ Tick

\* the pipeline run twice in a row on one batch, the clock frozen, the store and
\* the bus answering
NextRerun ==
    \/ \E batch \in RawBatches \cup {BigBatch} : Ingest(batch)
    \/ IngestAgain
    \/ Normalize
    \/ ScoreUniform
    \/ Tag
    \/ Persist
    \/ Emit

\* the worker is a process of its own, with no Redis client
InitWorker == Init /\ redis_client = None

SpecWorker == InitWorker /\ [][NextWorker]_vars

SpecRerun == InitWorker /\ [][NextRerun]_vars

-----------------------------------------------------------------------------
(* Properties *)

Abs(x) == IF x >= 0 THEN x ELSE -x

Bundles(p) == call[p].response.bundles

BundleIdx(p) == 1..Len(call[p].response.bundles)

\* the inventory generate holds for a service once the fan-out has joined
Fetched(p, svc) ==
    CASE svc = "flights" -> call[p].flights
      [] svc = "hotels" -> call[p].hotels
      [] svc = "cars" -> call[p].cars

\* q called generate after p's call had completed, with p's request, and looked the
\* cache up less than the 10-minute TTL after p stored its response
RepeatsWithinTtl(p, q) ==
    /\ p # q
    /\ redis_client # None
    /\ Returned(p) /\ Returned(q)
    /\ p \in call[q].began_after
    /\ call[q].request = call[p].request
    /\ call[p].stored_at >= 0
    /\ call[q].lookup_at < call[p].stored_at + BundleTtl

\* C1: with a live hot cache, a generate(R) that follows a completed generate(R)
\* within the 10-minute TTL makes no upstream request and returns a response equal
\* to the first (same search_id, same bundle ids, same contents).
C1_RepeatServedFromCache ==
    \A p, q \in Procs :
        RepeatsWithinTtl(p, q) =>
            /\ \A svc \in Services : call[q].attempts[svc] = 0
            /\ call[q].response = call[p].response

\* a repeat within the TTL has happened, after the clock moved, with bundles in it
C1_Witness ==
    \E p, q \in Procs :
        /\ RepeatsWithinTtl(p, q)
        /\ call[q].cache_hit
        /\ call[q].lookup_at > call[p].stored_at
        /\ call[p].response.total_results >= 2

\* two calls with the same request whose cache lookups are less than a TTL apart
SameRequestWithinTtl(p, q) ==
    /\ p # q
    /\ redis_client # None
    /\ Returned(p) /\ Returned(q)
    /\ call[q].request = call[p].request
    /\ Abs(call[q].lookup_at - call[p].lookup_at) < BundleTtl

\* C2: two calls generate(r) with identical r and a live hot cache return identical
\* responses under any interleaving, also when both start before either has stored.
C2_IdenticalUnderInterleaving ==
    \A p, q \in Procs :
        SameRequestWithinTtl(p, q) => call[q].response = call[p].response

\* C3: every bundle of a response returned to a call that carries a user_id is in
\* the durable bundle store under that user_id, cache hit or not.
C3_PersistedForUser ==
    \A p \in Procs :
        (Returned(p) /\ Truthy(call[p].user_id)) =>
            \A i \in BundleIdx(p) :
                \E j \in 1..Len(bundles) :
                    /\ bundles[j].id = Bundles(p)[i].id
                    /\ bundles[j].user_id = call[p].user_id

ComponentSum(bundle) ==
    bundle.components[1].price + bundle.components[2].price + bundle.components[3].price

\* C4: every returned bundle has exactly three components, a flight, a hotel and a
\* car in that order, and total_price is within 1 cent of the sum of their prices.
C4_ComponentsAndTotal ==
    \A p \in Procs :
        Returned(p) =>
            \A i \in BundleIdx(p) :
                LET b == Bundles(p)[i]
                IN  /\ Len(b.components) = 3
                    /\ b.components[1].type = "flight"
                    /\ b.components[2].type = "hotel"
                    /\ b.components[3].type = "car"
                    /\ Abs(b.total_price - ComponentSum(b)) <= 10

\* a returned bundle of a zero-night hotel whose total was rounded to cents
C4_Witness ==
    \E p \in Procs :
        /\ Returned(p)
        /\ \E i \in BundleIdx(p) :
              /\ Bundles(p)[i].components[2].metadata.nights = 0
              /\ Bundles(p)[i].components[3].price > 0
              /\ Bundles(p)[i].total_price # ComponentSum(Bundles(p)[i])

\* C5: every returned bundle has savings >= 0, whatever discount a matched deal carries.
C5_SavingsNonNegative ==
    \A p \in Procs :
        Returned(p) => \A i \in BundleIdx(p) : Bundles(p)[i].savings >= 0

\* C6: every returned bundle has 0 <= fit_score <= 100, whatever score a deal carries.
C6_FitScoreRange ==
    \A p \in Procs :
        Returned(p) =>
            \A i \in BundleIdx(p) :
                Bundles(p)[i].fit_score >= 0 /\ Bundles(p)[i].fit_score <= FitCap

\* a returned bundle that a deal with a negative score was applied to
C6_Witness ==
    \E p \in Procs :
        /\ Returned(p)
        /\ ~call[p].cache_hit
        /\ "d1" \in DOMAIN cached_deals
        /\ cached_deals["d1"].score < 0
        /\ \E i \in BundleIdx(p) :
              Bundles(p)[i].explanation = <<"Hotel deal:", cached_deals["d1"].summary>>

\* C7: every returned response has total_results = number of bundles and
\* 1 <= total_results <= bundle_limit, whatever the upstreams answer.
C7_TotalResults ==
    \A p \in Procs :
        Returned(p) =>
            /\ call[p].response.total_results = Len(Bundles(p))
            /\ call[p].response.total_results >= 1
            /\ call[p].response.total_results <= bundle_limit

\* a response computed from an empty flights answer, a failing hotels service and
\* real cars
C7_Witness ==
    \E p \in Procs :
        /\ Returned(p)
        /\ call[p].attempts["flights"] >= 1
        /\ call[p].upstream["flights"] = [fails |-> 0, items |-> <<>>]
        /\ call[p].upstream["hotels"].fails >= StopAfterAttempt
        /\ call[p].upstream["cars"] = [fails |-> 0, items |-> CarInventory]
        /\ call[p].response.total_results = 2

\* the hotels service failed on every attempt of p's fetch
HotelsDown(p) ==
    /\ call[p].attempts["hotels"] >= 1
    /\ call[p].upstream["hotels"].fails >= StopAfterAttempt

C9_RetriedBeforeFallback ==
    \A p \in Procs, svc \in Services :
        ( /\ call[p].pc = "compute"
          /\ call[p].upstream[svc].fails >= 1
          /\ call[p].upstream[svc].fails < StopAfterAttempt
          /\ call[p].upstream[svc].items # <<>> )
        => /\ call[p].attempts[svc] = call[p].upstream[svc].fails + 1
           /\ Fetched(p, svc) = call[p].upstream[svc].items

\* C10: a failing hot-cache operation is never propagated: the call still returns
\* a computed response.
C10_CacheErrorsSwallowed ==
    \A p \in Procs :
        call[p].pc = "done" =>
            /\ call[p].error # "RedisError"
            /\ Returned(p)
            /\ call[p].response # Nil

\* C11: a generate call whose cache_bundles commit failed still returns its
\* response to the caller; only the bundle records of that request are lost.
C11_CommitFailureSwallowed ==
    \A p \in Procs :
        (call[p].pc = "done" /\ call[p].commit_failed) =>
            /\ Returned(p)
            /\ call[p].response # Nil

\* the messages of the topic that were applied to cached_deals
Applied == {i \in 1..Len(topic) : topic[i].applied}

\* the deal ids that have an applied event, and the latest event of each
EventIds == {topic[i].payload.deal_id : i \in Applied}

LatestEvent(d) ==
    LET last == CHOOSE i \in Applied :
                    /\ topic[i].payload.deal_id = d
                    /\ \A j \in Applied : topic[j].payload.deal_id = d => j <= i
    IN  topic[last].payload

\* the score of deal d is among the K highest of the deals for its destination
AmongTopK(d, K) ==
    Cardinality({x \in EventIds :
                    /\ LatestEvent(x).destination = LatestEvent(d).destination
                    /\ LatestEvent(x).score > LatestEvent(d).score}) < K

InRows(d, rows) == \E i \in 1..Len(rows) : rows[i].deal_id = d

\* C12: after any sequence of upserts, a deal whose latest event's score is among
\* the K highest for its destination is in every answer of
\* top_deals(destination, limit=K).
C12_TopKContainsDeal ==
    \A d \in EventIds, K \in 1..TopDealsLimit :
        AmongTopK(d, K) =>
            \A rows \in top_deals(cached_deals, LatestEvent(d).destination, K) :
                InRows(d, rows)

\* the columns of a row that the event's payload carries
RowMatchesPayload(row, payload) ==
    /\ row.deal_id = payload.deal_id
    /\ row.type = payload.type
    /\ row.destination = payload.destination
    /\ row.score = payload.score
    /\ IsoFormat(row.valid_until) = payload.valid_until
    /\ row.inventory = payload.inventory

\* C13: once the consumer has parsed and applied a payload, every row that a
\* top_deals read returns for its deal_id carries the payload's deal_id, type,
\* destination, score, valid_until and inventory, whether or not the deal_id was
\* cached before.
C13_PayloadRoundTrip ==
    (topic # <<>> /\ topic[Len(topic)].applied) =>
        LET payload == topic[Len(topic)].payload
        IN  \A destination \in {None, "LAX", "JFK"}, K \in 1..TopDealsLimit :
                \A rows \in top_deals(cached_deals, destination, K) :
                    \A i \in 1..Len(rows) :
                        rows[i].deal_id = payload.deal_id =>
                            RowMatchesPayload(rows[i], payload)

\* the ids of the watches in a list of (watch, deal) pairs
TriggeredIds(triggered) == {triggered[k].watch.id : k \in 1..Len(triggered)}

\* a step of an evaluation: when it ends an evaluation that returned, every watch it
\* triggered is inactive with a last_triggered_at in the store; and a stored watch
\* changes only in the commit of an evaluation that triggered it, together with
\* every other watch that evaluation triggered
C14_Step ==
    /\ (evaluator.pc # "sleep" /\ evaluator'.pc = "sleep"
            /\ evaluator'.outcome = "returned") =>
          \A id \in TriggeredIds(evaluator'.triggered) :
              /\ ~watch_requests'[id].active
              /\ watch_requests'[id].last_triggered_at # <<>>
    /\ \A id \in DOMAIN watch_requests :
          watch_requests'[id] # watch_requests[id] =>
              /\ evaluator.pc = "commit"
              /\ id \in TriggeredIds(evaluator.triggered)
              /\ \A other \in TriggeredIds(evaluator.triggered) :
                    /\ ~watch_requests'[other].active
                    /\ watch_requests'[other].last_triggered_at # <<>>

\* C14: after an evaluation tick completes, every watch the tick triggered is
\* inactive with a non-null last_triggered_at in the store, all of them written by
\* one commit; the watches the tick did not trigger are left unchanged.
C14_TriggeredDeactivatedInBatch == [][C14_Step]_vars

\* an evaluation returned after triggering and deactivating a watch, while another
\* watch it had selected is still active in the store
C14_Witness ==
    /\ evaluator.pc = "sleep"
    /\ evaluator.outcome = "returned"
    /\ evaluator.triggered # <<>>
    /\ \A id \in TriggeredIds(evaluator.triggered) :
          ~watch_requests[id].active /\ watch_requests[id].last_triggered_at # <<>>
    /\ \E k \in 1..Len(evaluator.watches) :
          /\ evaluator.watches[k].id \notin TriggeredIds(evaluator.triggered)
          /\ watch_requests[evaluator.watches[k].id] = evaluator.watches[k]

\* the broadcasts issued for a watch
AlertsOf(id) == {n \in 1..Len(alerts) : alerts[n].payload.data.watch_id = id}

\* C15: once the runner is between evaluations, every deactivated watch has had
\* exactly one broadcast of a deal_alert, issued to the watch's user_id with the
\* message "Deal {deal_id} now ${price:.2f}", whatever became of the other
\* broadcasts of its evaluation.
C15_OneAlertPerFiring ==
    evaluator.pc = "sleep" =>
        \A id \in DOMAIN watch_requests :
            ~watch_requests[id].active =>
                /\ Cardinality(AlertsOf(id)) = 1
                /\ \A n \in AlertsOf(id) :
                      /\ alerts[n].user_id = watch_requests[id].user_id
                      /\ alerts[n].payload.type = "deal_alert"
                      /\ \E d \in DealIds, price \in {e.price["deal"] : e \in WatchDealEvents} :
                            alerts[n].payload.data.message =
                                <<"Deal", d, "now", "$", Format2f(price)>>

\* the step that fixes the triggered list of an evaluation: every watch in it is
\* still active in the store, and no watch is in it twice
C16_Step ==
    (evaluator.pc = "deals" /\ evaluator'.pc = "commit") =>
        LET triggered == evaluator'.triggered
        IN  /\ \A k \in 1..Len(triggered) : watch_requests[triggered[k].watch.id].active
            /\ \A k, m \in 1..Len(triggered) :
                  k # m => triggered[k].watch.id # triggered[m].watch.id

\* C16: a watch is triggered at most once per tick, and a watch that has fired
\* (active = false) is never triggered again by a later tick, whatever ticks, deal
\* upserts and watch creations come between.
C16_SingleShot == [][C16_Step]_vars

\* a later evaluation has triggered a watch while a watch fired by an earlier
\* evaluation sits inactive in the store, outside the triggered list
C16_Witness ==
    /\ evaluator.pc = "commit"
    /\ evaluator.ticks >= 1
    /\ evaluator.triggered # <<>>
    /\ \E id \in DOMAIN watch_requests :
          /\ ~watch_requests[id].active
          /\ id \notin TriggeredIds(evaluator.triggered)

\* C17: while broadcast is sending to a channel it does not hold the registry lock;
\* it holds the lock only while it copies its targets.
C17_LockNotHeldAcrossSend ==
    /\ broadcast.pc = "send" => _lock # "broadcast"
    /\ _lock = "broadcast" => broadcast.pc = "locked"

\* a connect holds the lock while a send of a broadcast is in progress
C17_Witness ==
    /\ broadcast.pc = "send"
    /\ \E s \in Sockets : _lock = s /\ endpoint[s] = "connect"

\* C18: a broadcast whose send to one channel failed still sends the payload to
\* every other channel of its snapshot and returns to its caller.
C18_SendFailureSkipped ==
    broadcast.pc = "done" =>
        /\ broadcast.outcome = "returned"
        /\ \A k \in 1..Len(broadcast.targets) :
              (broadcast.outcome = "raised" => k # broadcast.i) =>
                  \E m \in 1..Len(broadcast.sent) : broadcast.sent[m] = broadcast.targets[k]

\* the deals that have left the tag stage of the current run
TaggedDeals ==
    IF worker.pc \in {"persist", "emit"} \/ worker.outcome = "processed"
          \/ (worker.outcome = "error" /\ worker.deals # <<>>
                /\ "tags" \in DOMAIN worker.deals[1])
    THEN {worker.deals[i] : i \in 1..Len(worker.deals)}
    ELSE {}

HasTag(deal, tag) == \E i \in 1..Len(deal.tags) : deal.tags[i] = tag

\* C19: every deal output by the tag stage with discount_percentage > 50 is tagged
\* flash_deal, with less than 24 h between the time of tagging and valid_until is
\* tagged expires_soon, and with ai_score > 80 is tagged top_pick.
C19_TagInclusion ==
    \A deal \in TaggedDeals :
        /\ deal.discount_percentage > 50000 => HasTag(deal, "flash_deal")
        /\ FromIso(deal.valid_until) - FromIso(deal.tagged_at) < 24 * Hour
              => HasTag(deal, "expires_soon")
        /\ deal.ai_score > 80000 => HasTag(deal, "top_pick")

\* the tag stage has output a hotel deal over 50 % off scored above 80, and a
\* flight deal that was a day or more from expiry when scored and less when tagged
C19_Witness ==
    /\ \E deal \in TaggedDeals :
          /\ deal.discount_percentage > 50000
          /\ deal.ai_score > 80000
          /\ HasTag(deal, "flash_deal") /\ HasTag(deal, "top_pick")
    /\ \E deal \in TaggedDeals :
          /\ FromIso(deal.valid_until) - FromIso(deal.scored_at) >= 24 * Hour
          /\ FromIso(deal.valid_until) - FromIso(deal.tagged_at) < 24 * Hour
          /\ HasTag(deal, "expires_soon")

\* a raw deal that no stage before persist raises on
Processable(deal) == ~NormalizeRaises(deal) /\ ~ScoreRaises(deal) /\ ~TagRaises(deal)

\* C20: when a pipeline run is over, every ingested deal that no stage raised on has
\* been persisted by that run, whatever happened to the other deals of the batch
\* (a failing update_one loses only its own deal).
C20_FailureIsolation ==
    (worker.pc = "sleep" /\ worker.outcome # "none") =>
        \A i \in 1..Len(worker.raw) :
            Processable(worker.raw[i]) =>
                \/ <<worker.raw[i].reference_id, worker.raw[i].type>> \in worker.written
                \/ /\ worker.outcome = "error"
                   /\ Len(worker.deals) > Cardinality(worker.written)
                   /\ "tags" \in DOMAIN worker.deals[1]
                   /\ worker.deals[Cardinality(worker.written) + 1].reference_id
                         = worker.raw[i].reference_id

\* the (referenceId, type) keys of the documents in the analytics store
StoreKeys(collection) == DOMAIN collection

\* the batch of this run goes through every stage without raising
AllProcessable ==
    \A i \in 1..Len(worker.raw) :
        /\ ~NormalizeRaises(worker.raw[i])
        /\ ~ScoreRaises(worker.raw[i])
        /\ ~TagRaises(worker.raw[i])

C21_Rerun ==
    /\ worker.runs = 1 => StoreKeys(mongo_deals') = StoreKeys(mongo_deals)
    /\ (worker'.runs = 2 /\ worker'.pc = "sleep")
          => Len(produced') = 2 * Min(EmitLimit, Len(worker'.raw))

\* C21: when the pipeline runs twice on the same batch with the clock frozen, the
\* second run leaves the set of (reference_id, type) keys of the analytics store as
\* the first run left it, and after the second run the bus holds exactly
\* 2 * min(10, |deals|) events.
C21_PipelineIdempotent == [][C21_Rerun]_vars

\* the same, for batches every deal of which goes through the stages
C21_ProcessableRerun == [][AllProcessable => C21_Rerun]_vars

\* the deal row is expired at clock reading t: valid_until <= now
Expired(deal, t) == deal.valid_until * Hour <= t

\* the cached deals a bundle's explanation names
OverlaidDeals(bundle) ==
    {d \in DOMAIN cached_deals :
        Len(bundle.explanation) = 2 /\ bundle.explanation[2] = cached_deals[d].summary}

\* C22: a cached deal whose valid_until <= now is never the deal overlaid on a
\* bundle that generate has just built, and never the deal of a triggered watch.
C22_ExpiredNeverRead ==
    /\ \A p \in Procs : call[p].pc = "store" =>
          \A k \in 1..Len(call[p].response.bundles) :
             \A d \in OverlaidDeals(call[p].response.bundles[k]) :
                ~Expired(cached_deals[d], now)
    /\ evaluator.pc = "commit" =>
          \A k \in 1..Len(evaluator.triggered) :
             ~Expired(evaluator.triggered[k].deal, now)

\* C23: when an evaluation has raised, the runner has swallowed the error and is
\* asleep, and unless it is cancelled a further evaluation starts: with n
\* evaluations over and the last one raised, the runner comes to be evaluating
\* again, or to have finished evaluation n + 1, or cancelled.
C23_LoopSurvivesErrors ==
    \A n \in 1..(MaxEvaluations - 1) :
        (evaluator.ticks = n /\ evaluator.outcome = "raised")
            ~> \/ evaluator.ticks > n
               \/ evaluator.pc \in {"deals", "commit", "alert", "broadcast"}
               \/ evaluator.pc = "cancelled"

\* an evaluation raised at a send, and the evaluation after it has run
C23_Witness ==
    /\ evaluator.ticks = 2
    /\ evaluator.pc = "sleep"
    /\ evaluator.outcome = "returned"
    /\ broadcast.outcome = "raised"

\* C24: a cancelled runner has left no evaluation half-done: every watch its last
\* evaluation triggered is deactivated in the store and has had its alert.
C24_CancelLeavesTickWhole ==
    evaluator.pc = "cancelled" =>
        \A k \in 1..Len(evaluator.triggered) :
            LET id == evaluator.triggered[k].watch.id
            IN  /\ ~watch_requests[id].active
                /\ AlertsOf(id) # {}

\* the row is a deal for the watch's destination at or below its budget ceiling
Matches(watch, deal) ==
    deal.destination = watch.destination /\ deal.price_value <= watch.budget_ceiling

\* the pairs of a triggered list that hold the watch
PairsOf(triggered, watch) == {k \in 1..Len(triggered) : triggered[k].watch.id = watch.id}

\* the step in which an evaluation reads the top deals and fixes its triggered
\* list, for the watches it selected
C25_Step ==
    (evaluator.pc = "deals" /\ evaluator'.pc \in {"commit", "sleep"}) =>
        \E deals \in top_deals(cached_deals, None, TopDealsLimit) :
            \A i \in 1..Len(evaluator.watches) :
                LET w == evaluator.watches[i]
                    matching == {m \in 1..Len(deals) : Matches(w, deals[m])}
                    pairs == PairsOf(evaluator'.triggered, w)
                IN  /\ watch_requests[w.id].active
                    /\ pairs # {} <=> matching # {}
                    /\ \A k \in pairs :
                          /\ \E m \in matching : evaluator'.triggered[k].deal = deals[m]
                          /\ \A m \in matching :
                                evaluator'.triggered[k].deal.score >= deals[m].score

\* C25: in an evaluation, an active watch is triggered if and only if the five
\* highest-scoring cached deals, taken over all destinations, include a deal of the
\* watch's destination priced at or below its budget ceiling, and the deal it is
\* paired with is the highest-scoring such deal.
C25_TriggerCondition == [][C25_Step]_vars

\* an evaluation has triggered one watch and passed over another whose only
\* matching deal is outside the five that top_deals returned
C25_Witness ==
    /\ evaluator.pc = "commit"
    /\ Cardinality(DOMAIN cached_deals) > TopDealsLimit
    /\ \E i \in 1..Len(evaluator.watches) :
          /\ PairsOf(evaluator.triggered, evaluator.watches[i]) = {}
          /\ \E d \in DOMAIN cached_deals : Matches(evaluator.watches[i], cached_deals[d])
    /\ \E i \in 1..Len(evaluator.watches) :
          PairsOf(evaluator.triggered, evaluator.watches[i]) # {}

\* C26: an active watch for whose destination the cache holds a deal at or below
\* its budget ceiling fires: once an evaluation that found the watch active has run
\* to its end without error, the watch is no longer active.
C26_MatchingDealFires ==
    (evaluator.pc = "sleep" /\ evaluator.ticks >= 1 /\ evaluator.outcome = "returned") =>
        \A i \in 1..Len(evaluator.watches) :
            (\E d \in DOMAIN cached_deals : Matches(evaluator.watches[i], cached_deals[d]))
                => ~watch_requests[evaluator.watches[i].id].active

\* The step in which generate builds its response, bundle by bundle.  The
\* candidate a bundle came from is read off its id; `floored` says whether the
\* bonus of an applied deal is floored at 0.
C27_Step(floored) ==
    \A p \in Procs :
        (call[p].pc = "compute" /\ call'[p].pc = "store") =>
            \E deals \in top_deals(cached_deals, call[p].request.destination, TopDealsLimit) :
                \A n \in 1..Len(call'[p].response.bundles) :
                    LET request == call[p].request
                        b == call'[p].response.bundles[n]
                        hs == Take(call[p].hotels, 3)
                        cs == Take(call[p].cars, 2)
                        k == b.id[3]
                        flight == call[p].flights[((k - 1) \div (Len(hs) * Len(cs))) + 1]
                        hotel == hs[(((k - 1) \div Len(cs)) % Len(hs)) + 1]
                        car == cs[((k - 1) % Len(cs)) + 1]
                        ps == _price_summary(flight, hotel, car)
                        savings0 == Max(0, ps.baseline - ps.total)
                        hotel_deal(m) ==
                            /\ deals[m].payload.type = "hotel"
                            /\ Contains(LowerAll(deals[m].summary), LowerAll(hotel.name))
                        flight_deal(m) ==
                            /\ deals[m].payload.type = "flight"
                            /\ Contains(deals[m].summary, <<flight.origin>>)
                        applicable == {m \in 1..Len(deals) : hotel_deal(m) \/ flight_deal(m)}
                    IN  /\ \A i, j \in 1..Len(deals) :
                              /\ deals[i].destination = request.destination
                              /\ i < j => deals[i].score >= deals[j].score
                        /\ IF applicable = {}
                           THEN /\ b.savings = Round2(savings0)
                                /\ b.fit_score =
                                      Round2(_fit_score(ps.total, ps.baseline, request, hotel, 0))
                                /\ b.explanation =
                                      <<"Balanced itinerary with matched preferences">>
                           ELSE LET first == CHOOSE m \in applicable :
                                                \A x \in applicable : m <= x
                                    deal == deals[first]
                                    discount == IF "discount" \in DOMAIN deal.payload.price
                                                THEN deal.payload.price["discount"] ELSE 0
                                    half == Min(FloorDiv(deal.score, 2), DealBonusCap)
                                    deal_bonus == IF floored THEN Max(0, half) ELSE half
                                IN  /\ b.savings = Round2(savings0 + discount)
                                    /\ b.fit_score =
                                          Round2(_fit_score(ps.total, ps.baseline, request,
                                                            hotel, deal_bonus))
                                    /\ b.explanation =
                                          <<IF hotel_deal(first) THEN "Hotel deal:"
                                            ELSE "Flight deal:", deal.summary>>

\* C27: for each bundle the top deals of the request's destination are scanned in
\* score-descending order and at most one is applied, the first that is a hotel
\* deal whose summary contains the hotel name (case-insensitive) or a flight deal
\* whose summary contains the flight origin; then savings grows by the deal's
\* price.discount, deal_bonus = min(deal.score / 2, 25) and the explanation names
\* the deal; when none applies, deal_bonus = 0 and the explanation is "Balanced
\* itinerary with matched preferences".
C27_DealOverlay == [][C27_Step(FALSE)]_vars

\* C27, amended: the same, with deal_bonus = max(0, min(deal.score / 2, 25)) and
\* a discount of 0 for a deal whose price has no discount.
C27_DealOverlayFloored == [][C27_Step(TRUE)]_vars

\* a response holds a bundle with a deal applied and a bundle with none, and a
\* deal of negative score has been applied
C27_Witness ==
    \E p \in Procs :
        /\ call[p].pc = "store"
        /\ \E n \in 1..Len(call[p].response.bundles) :
              call[p].response.bundles[n].explanation =
                  <<"Balanced itinerary with matched preferences">>
        /\ \E n \in 1..Len(call[p].response.bundles) :
              \E d \in OverlaidDeals(call[p].response.bundles[n]) :
                  cached_deals[d].score < 0

\* The step in which generate builds its response: the bundles kept and the
\* candidates they were taken from.  A bundle's candidate number is in its id.
C28_Step ==
    \A p \in Procs :
        (call[p].pc = "compute" /\ call'[p].pc = "store") =>
            \E deals \in top_deals(cached_deals, call[p].request.destination, TopDealsLimit) :
                LET kept == call'[p].response.bundles
                    fs == Take(call[p].flights, 3)
                    hs == Take(call[p].hotels, 3)
                    cs == Take(call[p].cars, 2)
                    N == Len(fs) * Len(hs) * Len(cs)
                    cands == Candidates(call[p].request, deals, call[p].flights,
                                        call[p].hotels, call[p].cars, uuid_counter + 1)
                    num(n) == kept[n].id[3]
                    before(a, ka, b, kb) ==
                        a.fit_score > b.fit_score \/ (a.fit_score = b.fit_score /\ ka < kb)
                IN  /\ N <= 18
                    /\ Len(cands) = N
                    \* candidate k is flight, hotel, car number (fi, hi, ci), in loop order
                    /\ \A fi \in 1..Len(fs), hi \in 1..Len(hs), ci \in 1..Len(cs) :
                          cands[(fi - 1) * Len(hs) * Len(cs) + (hi - 1) * Len(cs) + ci].components
                              = _build_components(fs[fi], hs[hi], cs[ci])
                    /\ Len(kept) = Min(bundle_limit, N)
                    /\ \A n \in 1..Len(kept) : num(n) \in 1..N /\ kept[n] = cands[num(n)]
                    \* fit_score descending, equal scores in enumeration order
                    /\ \A n, m \in 1..Len(kept) :
                          n < m => before(kept[n], num(n), kept[m], num(m))
                    \* every candidate left out comes after every bundle kept
                    /\ \A k \in 1..N :
                          (\A n \in 1..Len(kept) : num(n) # k) =>
                              \A n \in 1..Len(kept) : before(kept[n], num(n), cands[k], k)

\* C28: the bundles of a response are in fit_score-descending order, candidates of
\* equal fit_score in their enumeration order (flight, then hotel, then car), and
\* they are the first bundle_limit entries of that order over the product of the
\* first 3 flights, 3 hotels and 2 cars, at most 18 candidates.
C28_ResponseOrder == [][C28_Step]_vars

\* a response cut to bundle_limit from more candidates, holding two bundles of
\* equal fit_score and a bundle that overtook an earlier candidate
C28_Witness ==
    \E p \in Procs :
        /\ call[p].pc = "store"
        /\ Len(call[p].response.bundles) = bundle_limit
        /\ \E n \in 1..bundle_limit : call[p].response.bundles[n].id[3] > bundle_limit
        /\ \E n, m \in 1..bundle_limit :
              /\ n < m
              /\ call[p].response.bundles[n].fit_score = call[p].response.bundles[m].fit_score
        /\ \E n, m \in 1..bundle_limit :
              /\ n < m
              /\ call[p].response.bundles[n].id[3] > call[p].response.bundles[m].id[3]

\* row a comes before row b: the higher score, or the same score and an updated_at
\* at least as recent
ScoreThenRecency(a, b) ==
    a.score > b.score \/ (a.score = b.score /\ a.updated_at >= b.updated_at)

\* C29: whatever top_deals(destination, limit) answers, its rows are in
\* score-descending order with the more recently updated of two rows of equal
\* score first, and a row left out by the limit comes after every row returned.
C29_TieBreakByRecency ==
    \A destination \in {None, "LAX", "JFK"}, limit \in 1..TopDealsLimit :
        \A rows \in top_deals(cached_deals, destination, limit) :
            /\ \A i, j \in 1..Len(rows) : i < j => ScoreThenRecency(rows[i], rows[j])
            /\ \A d \in DOMAIN cached_deals :
                  ((destination = None \/ cached_deals[d].destination = destination)
                   /\ \A i \in 1..Len(rows) : rows[i].deal_id # d)
                     => \A i \in 1..Len(rows) : ScoreThenRecency(rows[i], cached_deals[d])

\* the row of deal d carries what the latest applied event for d carried
LastWriterWins(d) ==
    LET event == ParseDealEvent(LatestEvent(d))
        row == cached_deals[d]
    IN  /\ row.deal_id = d
        /\ row.score = event.score
        /\ row.price_value = event.price["deal"]
        /\ row.inventory = event.inventory
        /\ row.valid_until = event.valid_until
        /\ row.payload = event

\* an upsert has been applied: the cache is as C30 says, and no other row moved
C30_Step ==
    (Len(topic') = Len(topic) + 1 /\ topic'[Len(topic')].applied) =>
        /\ (DOMAIN cached_deals = EventIds /\ \A d \in EventIds : LastWriterWins(d))'
        /\ \A d \in DOMAIN cached_deals :
              d # topic'[Len(topic')].payload.deal_id => cached_deals'[d] = cached_deals[d]

\* C30: after any sequence of upserts applied one after the other the cache holds
\* exactly one row per deal_id, whose score, deal price, inventory, valid_until and
\* payload are those of the event most recently applied for that deal_id, and an
\* upsert leaves the rows of other deal_ids unchanged.
C30_LastWriterWins == [][C30_Step]_vars

\* d1 was written twice, with another deal cached beside it: its row has the
\* second event's score and price
C30_Witness ==
    /\ Cardinality({i \in Applied : topic[i].payload.deal_id = "d1"}) = 2
    /\ "d2" \in DOMAIN cached_deals
    /\ topic[Len(topic)].applied
    /\ topic[Len(topic)].payload.deal_id = "d1"
    /\ cached_deals["d1"].score = topic[Len(topic)].payload.score
    /\ \E i \in Applied : topic[i].payload.deal_id = "d1"
                           /\ topic[i].payload.score # cached_deals["d1"].score

\* the sockets registered under a key, as a set
Bucket(connections, key) ==
    {GetSockets(connections, key)[i] : i \in 1..Len(GetSockets(connections, key))}

\* no key of the registry is mapped to an empty list, and no key is there twice
NoEmptyBucket(connections) ==
    /\ \A i \in 1..Len(connections) : connections[i].sockets # <<>>
    /\ \A i, j \in 1..Len(connections) :
          i # j => connections[i].key # connections[j].key

\* a step of the registry: a disconnect takes its channel out of its user's
\* bucket and leaves the others as they were; afterwards no bucket is empty, and
\* a disconnect of a channel that is not in the bucket it names would change
\* nothing
C31_Step ==
    /\ \A s \in Channels :
          (endpoint[s] = "disconnect" /\ endpoint'[s] = "closed") =>
              LET key == RegistryKey(SocketUser(s))
              IN  /\ Bucket(_connections', key) = Bucket(_connections, key) \ {s}
                  /\ Bucket(_connections', key) = {} => ~HasKey(_connections', key)
                  /\ \A other \in {"u1", "u2", "anon"} \ {key} :
                        GetSockets(_connections', other) = GetSockets(_connections, other)
    /\ NoEmptyBucket(_connections')
    /\ \A s \in Channels, key \in {"u1", "u2", "anon"} :
          s \notin Bucket(_connections', key)
              => Unregister(_connections', key, s) = _connections'

\* C31: disconnect removes the channel from its user's bucket and deletes the key
\* when the bucket becomes empty; after any interleaving of connect, disconnect and
\* broadcast the registry holds no key mapped to an empty collection, and
\* disconnecting a channel that is not registered leaves the registry unchanged.
C31_NoEmptyBucket == [][C31_Step]_vars

\* a disconnect has emptied and deleted one bucket while another bucket holds two
\* channels, one of which already left
C31_Witness ==
    /\ endpoint["s3"] = "closed"
    /\ ~HasKey(_connections, "u2")
    /\ endpoint["s4"] = "open"
    /\ endpoint["s1"] = "open"
    /\ endpoint["s2"] = "disconnect"
    /\ Bucket(_connections, "u1") = {"s1", "s2"}
    /\ broadcast.sent # <<>>
    /\ \E i \in 1..Len(broadcast.sent) : broadcast.sent[i] = "s3"

\* the elements of a sequence
Elems(seq) == {seq[i] : i \in 1..Len(seq)}

\* a step of a broadcast: the snapshot of a broadcast with a user_id holds only
\* channels that connected with that userId, the snapshot of a broadcast without
\* one holds every registered channel; sends go to channels of the snapshot, and a
\* broadcast that returns has sent to all of them
C32_Step ==
    /\ (broadcast.pc = "locked" /\ broadcast'.pc # "locked") =>
          IF broadcast.user_id = None
          THEN Elems(broadcast'.targets) = Elems(AllSockets(_connections))
          ELSE \A s \in Elems(broadcast'.targets) : SocketUser(s) = broadcast.user_id
    /\ Elems(broadcast'.sent) \subseteq Elems(broadcast'.targets)
    /\ (broadcast'.pc = "done" /\ broadcast'.outcome = "returned") =>
          broadcast'.sent = broadcast'.targets

\* C32: a broadcast with a user_id sends only to channels registered under that
\* user_id, never to a channel of another user or of the "anon" bucket; a broadcast
\* without a user_id sends to every channel of every bucket.
C32_TargetedBroadcast == [][C32_Step]_vars

\* the channels a broadcast has called send_json on, the failed call included
Attempted(b) ==
    Elems(b.sent) \cup (IF b.outcome = "raised" THEN {b.targets[b.i]} ELSE {})

\* a step of a broadcast among connects and disconnects: the snapshot is the
\* content of the target bucket(s) at that moment, it does not change afterwards,
\* and the broadcast ends having called send_json on every channel of it and on
\* no other, whether a channel has connected or disconnected since
C40_Step ==
    /\ (broadcast.pc = "locked" /\ broadcast'.pc # "locked") =>
          broadcast'.targets = Targets(_connections, broadcast.user_id)
    /\ (broadcast.pc = "send" /\ broadcast'.pc \in {"send", "done"}) =>
          broadcast'.targets = broadcast.targets
    /\ Attempted(broadcast') \subseteq Elems(broadcast'.targets)
    /\ broadcast'.pc = "done" => Attempted(broadcast') = Elems(broadcast'.targets)

\* C40: a broadcast sends to exactly the channels that were in its target
\* bucket(s) when it took its snapshot: a channel that connects after the snapshot
\* does not receive the payload, and a channel that disconnects after the snapshot
\* but before its send is still sent to.
C40_SnapshotFanOut == [][C40_Step]_vars

\* the per-user keys of the hot cache: bundles:{user_id}:{search_id}
UserBundleKeys(store) == {k \in DOMAIN store : k[1] = "bundles"}

\* C37: every bundle held in the hot cache under bundles:{user_id}:{search_id} is
\* also a row of the durable store, of that user and that search (the commit comes
\* before the hot-cache write), and a call whose durable commit failed has left no
\* per-user hot-cache entry.
C37_HotCacheBackedByStore ==
    /\ \A k \in UserBundleKeys(redis) :
          LET cached == model_validate_json(redis[k].value)
          IN  \A i \in 1..Len(cached.bundles) :
                \E j \in 1..Len(bundles) :
                    /\ bundles[j].id = cached.bundles[i].id
                    /\ bundles[j].user_id = k[2]
                    /\ bundles[j].search_id = k[3]
                    /\ bundles[j].total_price = cached.bundles[i].total_price
                    /\ bundles[j].valid_until = cached.bundles[i].valid_until
    /\ \A p \in Procs :
          call[p].commit_failed =>
              UserBundlesKey(call[p].user_id, call[p].response.search_id) \notin DOMAIN redis

\* one call has mirrored its committed bundles to the hot cache and another call
\* of the same user has failed to commit its own
C37_Witness ==
    /\ UserBundleKeys(redis) # {}
    /\ \E k \in UserBundleKeys(redis) : redis[k].value.bundles # <<>>
    /\ \E p \in Procs :
          /\ call[p].commit_failed
          /\ call[p].response.bundles # <<>>
          /\ \E k \in UserBundleKeys(redis) : k[2] = call[p].user_id

\* C39: the hot-cache key of a response does not depend on the user_id: a caller
\* whose request equals that of an earlier, completed call of another user, within
\* the TTL, gets the earlier caller's response (same search_id, same bundle ids)
\* and makes no upstream call.
C39_SharedAcrossUsers ==
    \A p, q \in Procs :
        (RepeatsWithinTtl(p, q) /\ call[p].user_id # call[q].user_id) =>
            /\ call[q].cache_hit
            /\ \A svc \in Services : call[q].attempts[svc] = 0
            /\ call[q].response.search_id = call[p].response.search_id
            /\ [i \in 1..Len(call[q].response.bundles) |-> call[q].response.bundles[i].id]
                 = [i \in 1..Len(call[p].response.bundles) |-> call[p].response.bundles[i].id]

\* a user has been served the bundles generated for the other user, later on the
\* clock
C39_Witness ==
    \E p, q \in Procs :
        /\ RepeatsWithinTtl(p, q)
        /\ call[p].user_id # call[q].user_id
        /\ call[q].lookup_at > call[p].stored_at
        /\ call[q].response.bundles # <<>>
        /\ \E j \in 1..Len(bundles) :
              bundles[j].search_id = call[q].response.search_id
                 /\ bundles[j].user_id = call[p].user_id

\* the rows of the durable store generated for a user
RowsOf(user_id) == {j \in 1..Len(bundles) : bundles[j].user_id = user_id}

\* a step in which client p's bundles_for_user returns
Lists(p) == call'[p].outcome = "listed" /\ call'[p] # call[p]

\* what bundles_for_user returns: at most `limit` bundles, each generated for the
\* user asked for; from the hot cache when it holds bundles of that user, and
\* otherwise the user's `limit` most recently created rows, newest first
C36_Step ==
    \A p \in Procs :
        Lists(p) =>
            LET user_id == call'[p].user_id
                limit   == call'[p].request.limit
                result  == call'[p].response.bundles
                row(i)  == CHOOSE j \in 1..Len(bundles) : bundles[j].id = result[i].id
                live    == {k \in UserBundleKeys(redis) :
                               /\ k[2] = user_id
                               /\ RedisGet(redis, k, now) # Nil
                               /\ RedisGet(redis, k, now).bundles # <<>>}
            IN  /\ Len(result) <= limit
                /\ \A i \in 1..Len(result) :
                      \E j \in RowsOf(user_id) : bundles[j].id = result[i].id
                /\ call'[p].cache_hit =>
                      \A i \in 1..Len(result) :
                          \E k \in live :
                              \E n \in 1..Len(redis[k].value.bundles) :
                                  redis[k].value.bundles[n].id = result[i].id
                /\ (redis_client # None /\ live # {}) => call'[p].cache_hit
                /\ ~call'[p].cache_hit =>
                      /\ Len(result) = Min(limit, Cardinality(RowsOf(user_id)))
                      /\ \A i, j \in 1..Len(result) : i # j => result[i].id # result[j].id
                      /\ \A i \in 1..Len(result) :
                            /\ i < Len(result) =>
                                  bundles[row(i)].created_at >= bundles[row(i + 1)].created_at
                            /\ result[i].total_price = bundles[row(i)].total_price
                            /\ \A j \in RowsOf(user_id) :
                                  (\A n \in 1..Len(result) : result[n].id # bundles[j].id)
                                      => bundles[j].created_at <= bundles[row(i)].created_at

\* C36: bundles_for_user(user_id, limit) returns at most `limit` bundles, all of
\* them generated for user_id; it reads the hot cache first and, when the hot cache
\* yields none, returns the user's `limit` most recently created bundles from the
\* durable store, newest first.
C36_BundlesForUser == [][C36_Step]_vars

\* the time left to a tagged deal when it was tagged
LeftAtTagging(deal) == FromIso(deal.valid_until) - FromIso(deal.tagged_at)

\* C35: every deal output by the tag stage with less than 168 h between the time
\* of tagging and valid_until is tagged limited_time, and with less than 24 h is
\* tagged expires_soon.
C35_TimeTags ==
    \A deal \in TaggedDeals :
        /\ LeftAtTagging(deal) < 168 * Hour => HasTag(deal, "limited_time")
        /\ LeftAtTagging(deal) < 24 * Hour => HasTag(deal, "expires_soon")

\* what tag_deals does: the two time tags are tiers. A deal with less than 24 h
\* left is tagged expires_soon and not limited_time; a deal with 24 h or more and
\* less than 168 h left is tagged limited_time; a deal with more has neither.
C35_TimeTagTiers ==
    \A deal \in TaggedDeals :
        /\ LeftAtTagging(deal) < 24 * Hour =>
              HasTag(deal, "expires_soon") /\ ~HasTag(deal, "limited_time")
        /\ (LeftAtTagging(deal) >= 24 * Hour /\ LeftAtTagging(deal) < 168 * Hour) =>
              HasTag(deal, "limited_time") /\ ~HasTag(deal, "expires_soon")
        /\ LeftAtTagging(deal) >= 168 * Hour =>
              ~HasTag(deal, "limited_time") /\ ~HasTag(deal, "expires_soon")

\* C34: every deal stored by upsert_deal_event has a valid_until later than the
\* time of that upsert: no sequence of consumed deal.events puts into the cache a
\* deal that is already expired when it is written.
C34_ValidAtUpsert ==
    \A d \in DOMAIN cached_deals :
        ~Expired(cached_deals[d], cached_deals[d].updated_at)

\* the documents of the analytics store hold every deal of the run
AllPersisted ==
    \A i \in 1..Len(worker.deals) :
        LET key == <<worker.deals[i].reference_id, worker.deals[i].type>>
        IN  /\ key \in DOMAIN mongo_deals
            /\ mongo_deals[key].aiScore = worker.deals[i].ai_score
            /\ mongo_deals[key].tags = worker.deals[i].tags

\* a step of the worker: events are published only by a run that has upserted all
\* its deals; the emit stage leaves the analytics store as it is, and publishes, in
\* order, the event of each of the first ten deals whose send did not fail
C33_Step ==
    /\ produced' # produced => worker.pc = "emit" /\ AllPersisted
    /\ (worker.pc = "emit" /\ worker'.pc # "emit") =>
          /\ AllPersisted /\ AllPersisted'
          /\ mongo_deals' = mongo_deals
          /\ worker'.outcome = "processed"
          /\ LET sent == SubSeq(produced', Len(produced) + 1, Len(produced'))
             IN  /\ \A i \in TopTen(worker.deals) \ worker'.unpublished :
                       \E k \in 1..Len(sent) :
                           sent[k].deal_id[2] = worker.deals[i].reference_id
                 /\ Len(sent) = Cardinality(TopTen(worker.deals) \ worker'.unpublished)

\* C33: within a run every deal is upserted to the analytics store before the
\* first event is emitted, and a failed publish of one event is skipped without
\* undoing persistence and without preventing the remaining top-10 events from
\* being published.
C33_EmissionNeverBlocks == [][C33_Step]_vars

\* the publish of the first event of a run failed and the second was published,
\* both deals being in the analytics store
C33_Witness ==
    /\ worker.outcome = "processed"
    /\ worker.unpublished = {1}
    /\ Len(worker.deals) = 2
    /\ AllPersisted
    /\ Len(produced) = 1
    /\ produced[1].deal_id[2] = worker.deals[2].reference_id

\* the watches an evaluation has selected
SelectedIds(watches) == {watches[k].id : k \in 1..Len(watches)}

\* a step of the runner: a broadcast is issued only for a watch of the current
\* evaluation's triggered list, after every watch of that list was committed
\* inactive, and never twice for one watch; an inactive watch stays inactive and is
\* neither selected nor triggered by an evaluation that starts or goes on
C38_Step ==
    /\ alerts' # alerts =>
          /\ \A k \in 1..Len(evaluator.triggered) :
                ~watch_requests[evaluator.triggered[k].watch.id].active
          /\ Len(alerts') = Len(alerts) + 1
          /\ alerts'[Len(alerts')].payload.data.watch_id
                \in TriggeredIds(evaluator.triggered)
          /\ alerts'[Len(alerts')].tick = evaluator.ticks + 1
    /\ \A id \in DOMAIN watch_requests :
          ~watch_requests[id].active =>
              /\ ~watch_requests'[id].active
              /\ watch_requests'[id].last_triggered_at = watch_requests[id].last_triggered_at
              /\ evaluator'.watches # evaluator.watches =>
                    id \notin SelectedIds(evaluator'.watches)
              /\ evaluator'.triggered # evaluator.triggered =>
                    id \notin TriggeredIds(evaluator'.triggered)
    /\ \A id \in DOMAIN watch_requests' : Cardinality(AlertsOf(id)') <= 1

\* C38: in a tick the deactivation of all triggered watches is committed before
\* the first alert is sent, and a deactivated watch is never evaluated again, so an
\* alert is delivered at most once: when a broadcast raises, the runner is
\* cancelled during the fan-out or the user has no registered channel, the watch
\* stays inactive and its alert is not sent in any later tick.
C38_AtMostOnce == [][C38_Step]_vars

\* after a second evaluation, a watch deactivated by the first has had no
\* broadcast, the broadcast before its own having raised, and still has none
C38_Witness ==
    /\ evaluator.pc = "sleep"
    /\ evaluator.ticks = 2
    /\ \E id \in DOMAIN watch_requests :
          /\ ~watch_requests[id].active
          /\ AlertsOf(id) = {}
    /\ \E n \in 1..Len(alerts) : alerts[n].tick = 1

====
